---- MODULE Spec2Model ----
(***************************************************************************)
(* Helios testnet onboarding: the session store (store/onboardingStore.ts), *)
(* its reconciliation routine `initialize`, and the connection tracking of  *)
(* the ConnectWallet component.                                              *)
(***************************************************************************)
EXTENDS Integers, Sequences, FiniteSets, TLC

VARIABLES
    store,      \* the zustand store: step, xp, user, isUserLoading, onboardingProgress, requiresBotVerification
    token,      \* localStorage["jwt_token"], as the list of its dot-separated segments
    server,     \* what the API answers: [profile, progress]
    init,       \* the invocations of initialize: position, calls issued, settled result
    wagmi,      \* useAccount(): [isConnected, address]
    url,        \* the entry URL's query parameters
    mounted,    \* whether ConnectWallet is mounted
    ctl,        \* ConnectWallet's useState cells
    disconnectRan,  \* whether the last step ran handleDisconnect
    fetch,      \* the calls of fetchUser and fetchOnboardingProgress made by other components
    snap,        \* the store and token when initialize was last called with none in flight, and the calls since
    auth,       \* the handler of ConnectWallet that is running: where it stands, what it captured and called
    invite      \* InviteCodeDisplay's useState cells and its fetch cycles

vars == <<store, token, server, init, wagmi, url, mounted, ctl, disconnectRan, fetch, snap, auth, invite>>

----------------------------------------------------------------------------
(* Bounds *)

\* longest completedSteps sequence the server answers with
MaxSteps == 3

\* calls of initialize per invocation slot
MaxRuns == 2

----------------------------------------------------------------------------
(* Values *)

Wallets == {"0xA", "0xB"}

\* the three identifiers of stepMapping, and one the table does not know
KnownSteps == {"add_helios_network", "claim_from_faucet", "mint_early_bird_nft"}
StepIds == KnownSteps \cup {"share_on_x"}

\* stepMapping[unknown] + 1 is NaN in JavaScript
NaN == -1

\* progressError.response?.status === 403
StatusForbidden == 403
StatusServerError == 500
\* no response object on the error
NoStatus == 0

\* user: null, the stub {wallet} set from the token, or a fetched profile
NullUser == [kind |-> "null", wallet |-> ""]
StubUser(w) == [kind |-> "stub", wallet |-> w]
Profile(w) == [kind |-> "profile", wallet |-> w]

\* onboardingProgress: null, a record whose completedSteps is an array, or one
\* whose completedSteps is not an array
NullProgress == [kind |-> "null", completedSteps |-> <<>>]
ArrayProgress(cs) == [kind |-> "array", completedSteps |-> cs]
NotArrayProgress == [kind |-> "notArray", completedSteps |-> <<>>]

SeqsUpTo(S, n) == UNION {[1..k -> S] : k \in 0..n}

\* error objects: message (as words), response.status, the ad-hoc
\* requiresInviteCode flag, response.data.requiresBotVerification
Err(m, st, ric, rbv) ==
    [message |-> m, status |-> st, requiresInviteCode |-> ric, requiresBotVerification |-> rbv]
NoError == Err(<<>>, NoStatus, FALSE, FALSE)

Messages == { <<"Network", "Error">>,
              <<"Account", "not", "confirmed">> }

ServerErrors ==
    { Err(m, st, ric, rbv) : m \in Messages, st \in {NoStatus, StatusForbidden, StatusServerError},
                             ric \in BOOLEAN, rbv \in BOOLEAN }

\* String.prototype.includes, on messages split into words
Includes(msg, pat) ==
    \E i \in 1..(Len(msg) - Len(pat) + 1) : SubSeq(msg, i, i + Len(pat) - 1) = pat

----------------------------------------------------------------------------
(* Token codec: JSON.parse(atob(token.split('.')[1])) *)

\* a segment either is base64 of a JSON object (with its wallet field, "" when
\* it has none) or is not
Seg(w) == [b64json |-> TRUE, wallet |-> w]
BadSeg == [b64json |-> FALSE, wallet |-> ""]

\* localStorage.getItem returns null (or ""): falsy
NoToken == <<>>
TokenFor(w) == <<Seg(""), Seg(w), BadSeg>>

Tokens ==
    {TokenFor(w) : w \in Wallets} \cup
    { <<Seg(""), Seg(""), BadSeg>>,      \* payload without a wallet
      <<Seg(""), BadSeg, BadSeg>>,       \* payload not base64 JSON
      <<Seg("")>>,                       \* no second segment
      <<Seg(""), Seg("0xA")>> }          \* two segments only

\* mutant: reads the header segment
decodeToken_firstSegment(tok) ==
    IF Len(tok) >= 1 /\ tok[1].b64json
    THEN [ok |-> TRUE, wallet |-> tok[1].wallet]
    ELSE [ok |-> FALSE, wallet |-> ""]

\* mutant: a payload that cannot be read counts as one without a wallet
decodeToken_neverThrows(tok) ==
    IF Len(tok) >= 2 /\ tok[2].b64json
    THEN [ok |-> TRUE, wallet |-> tok[2].wallet]
    ELSE [ok |-> TRUE, wallet |-> ""]

\* JSON.parse(atob(token.split('.')[1]))
decodeToken(tok) ==
    IF Len(tok) >= 2 /\ tok[2].b64json
    THEN [ok |-> TRUE, wallet |-> tok[2].wallet]
    ELSE [ok |-> FALSE, wallet |-> ""]

\* what JSON.parse / atob throw
DecodeError == Err(<<"Unexpected", "token">>, NoStatus, FALSE, FALSE)

----------------------------------------------------------------------------
(* Session store *)

InitialStore ==
    [step |-> 0, xp |-> 0, user |-> NullUser, isUserLoading |-> TRUE,
     onboardingProgress |-> NullProgress, requiresBotVerification |-> FALSE]

setStep(s, n) == [s EXCEPT !.step = n]
setUser(s, u) == [s EXCEPT !.user = u]
setOnboardingProgress(s, p) == [s EXCEPT !.onboardingProgress = p]
setRequiresBotVerification(s, b) == [s EXCEPT !.requiresBotVerification = b]

addXP(s, amount) == [s EXCEPT !.xp = s.xp + amount]

\* mutant: leaves the loading flag as it was
resetStore_keepsLoading(s) ==
    [step |-> 0, xp |-> 0, user |-> NullUser, isUserLoading |-> s.isUserLoading,
     onboardingProgress |-> NullProgress, requiresBotVerification |-> FALSE]

resetStore(s) ==
    [step |-> 0, xp |-> 0, user |-> NullUser, isUserLoading |-> FALSE,
     onboardingProgress |-> NullProgress, requiresBotVerification |-> FALSE]

\* mutant: clears the points too
logout_clearsXp(s) ==
    [s EXCEPT !.step = 0, !.xp = 0, !.user = NullUser, !.onboardingProgress = NullProgress,
              !.requiresBotVerification = FALSE]

logout(s) ==
    [s EXCEPT !.step = 0, !.user = NullUser, !.onboardingProgress = NullProgress,
              !.requiresBotVerification = FALSE]

\* fetchUser, up to its await: `if (!user?.wallet) return`, then isUserLoading
\* mutant: fetches whatever the user is
fetchUserGuard_always(s) == TRUE

fetchUserGuard(s) == s.user.wallet # ""
fetchUserBegin(s) == [s EXCEPT !.isUserLoading = TRUE]

\* mutant: a failed fetch clears the user
fetchUserEnd_clearsOnFailure(s, ok, w) ==
    [s EXCEPT !.user = IF ok THEN Profile(w) ELSE NullUser, !.isUserLoading = FALSE]

\* fetchUser, from the answer of getUserProfile(w) on: try / catch / finally
fetchUserEnd(s, ok, w) ==
    LET s1 == IF ok THEN setUser(s, Profile(w)) ELSE s
    IN  [s1 EXCEPT !.isUserLoading = FALSE]

----------------------------------------------------------------------------
(* Reconciliation: initialize *)

getUserProfile(w) == [op |-> "getUserProfile", wallet |-> w]
getOnboardingProgress == [op |-> "getOnboardingProgress", wallet |-> ""]

stepMapping(id) ==
    CASE id = "add_helios_network" -> 3
      [] id = "claim_from_faucet" -> 4
      [] id = "mint_early_bird_nft" -> 5
      [] OTHER -> NaN

\* x + 1 in JavaScript, where x may be undefined
plusOne(x) == IF x = NaN THEN NaN ELSE x + 1

\* mutant: dashboard only beyond three steps
deriveStep_gt3(cs) ==
    IF Len(cs) > 3 THEN 7
    ELSE IF Len(cs) > 0 THEN plusOne(stepMapping(cs[Len(cs)]))
    ELSE 2

\* mutant: maps the first completed step
deriveStep_first(cs) ==
    IF Len(cs) >= 3 THEN 7
    ELSE IF Len(cs) > 0 THEN plusOne(stepMapping(cs[1]))
    ELSE 2

\* mutant: no completed step shows the connect screen
deriveStep_emptyZero(cs) ==
    IF Len(cs) >= 3 THEN 7
    ELSE IF Len(cs) > 0 THEN plusOne(stepMapping(cs[Len(cs)]))
    ELSE 0

\* the step for an array completedSteps
deriveStep(cs) ==
    IF Len(cs) >= 3 THEN 7
    ELSE IF Len(cs) > 0 THEN plusOne(stepMapping(cs[Len(cs)]))
    ELSE 2

InvalidProgressError ==
    Err(<<"Invalid", "onboarding", "progress", "data", ":", "completedSteps", "is", "not", "an", "array", ".">>,
        NoStatus, FALSE, FALSE)
NullProgressTypeError ==
    Err(<<"Cannot", "read", "properties", "of", "null">>, NoStatus, FALSE, FALSE)

\* a frame: the store and token a piece of code leaves, and how it left
Frame(s, tok, out, e) == [store |-> s, token |-> tok, outcome |-> out, thrown |-> e]

\* mutant: the step moves on from where it stands instead of being set
applyProgress_advances(s, tok, p) ==
    LET s1 == setOnboardingProgress(s, p)
    IN  IF p.kind = "null" THEN Frame(s1, tok, "throw", NullProgressTypeError)
        ELSE IF p.kind = "array"
             THEN Frame(setStep(s1, (s.step + deriveStep(p.completedSteps)) % 8), tok, "return", NoError)
        ELSE Frame(s1, tok, "throw", InvalidProgressError)

\* mutant: a derived step lowers the bot-verification gate
applyProgress_lowersGate(s, tok, p) ==
    LET s1 == setOnboardingProgress(s, p)
    IN  IF p.kind = "null" THEN Frame(s1, tok, "throw", NullProgressTypeError)
        ELSE IF p.kind = "array"
             THEN Frame(setRequiresBotVerification(setStep(s1, deriveStep(p.completedSteps)), FALSE),
                        tok, "return", NoError)
        ELSE Frame(s1, tok, "throw", InvalidProgressError)

\* the try block from the progress answer on
applyProgress(s, tok, p) ==
    LET s1 == setOnboardingProgress(s, p)
    IN  IF p.kind = "null" THEN Frame(s1, tok, "throw", NullProgressTypeError)
        ELSE IF p.kind = "array"
             THEN Frame(setStep(s1, deriveStep(p.completedSteps)), tok, "return", NoError)
        ELSE Frame(s1, tok, "throw", InvalidProgressError)

isNotConfirmed(e) ==
    \/ Includes(e.message, <<"not", "confirmed">>)
    \/ e.status = StatusForbidden
    \/ e.requiresInviteCode

confirmationError ==
    Err(<<"Account", "not", "confirmed", ".", "Please", "provide", "a", "valid", "invite", "code", ".">>,
        NoStatus, TRUE, FALSE)

\* mutant: the bot-verification gate drops the token
innerCatch_botClearsToken(s, tok, e) ==
    IF isNotConfirmed(e)
    THEN Frame(setStep(s, 0), NoToken, "throw", confirmationError)
    ELSE IF e.requiresBotVerification
    THEN Frame(setRequiresBotVerification(s, TRUE), NoToken, "return", NoError)
    ELSE Frame(setStep(s, 0), NoToken, "throw", e)

\* mutant: other errors keep the token
innerCatch_otherKeepsToken(s, tok, e) ==
    IF isNotConfirmed(e)
    THEN Frame(setStep(s, 0), NoToken, "throw", confirmationError)
    ELSE IF e.requiresBotVerification
    THEN Frame(setRequiresBotVerification(s, TRUE), tok, "return", NoError)
    ELSE Frame(setStep(s, 0), tok, "throw", e)

\* catch (progressError)
innerCatch(s, tok, e) ==
    IF isNotConfirmed(e)
    THEN Frame(setStep(s, 0), NoToken, "throw", confirmationError)
    ELSE IF e.requiresBotVerification
    THEN Frame(setRequiresBotVerification(s, TRUE), tok, "return", NoError)
    ELSE Frame(setStep(s, 0), NoToken, "throw", e)

\* mutant: the confirmation error is not thrown again
outerCatch_swallows(s, tok, e) ==
    LET s1 == [s EXCEPT !.isUserLoading = FALSE]
    IN  IF isNotConfirmed(e)
        THEN Frame(setStep(s1, 0), NoToken, "return", NoError)
        ELSE IF e.requiresBotVerification
        THEN Frame(setRequiresBotVerification(s1, TRUE), tok, "return", NoError)
        ELSE Frame(setStep(s1, 0), tok, "return", NoError)

\* catch (error)
outerCatch(s, tok, e) ==
    LET s1 == [s EXCEPT !.isUserLoading = FALSE]
    IN  IF isNotConfirmed(e)
        THEN Frame(setStep(s1, 0), NoToken, "throw", confirmationError)
        ELSE IF e.requiresBotVerification
        THEN Frame(setRequiresBotVerification(s1, TRUE), tok, "return", NoError)
        ELSE Frame(setStep(s1, 0), tok, "return", NoError)

\* mutant: the handlers clear the token but leave the step where it was
handleFailure_keepsStep(s, tok, e) ==
    LET f == innerCatch(s, tok, e)
        g == IF f.outcome = "throw" THEN outerCatch(f.store, f.token, f.thrown) ELSE f
    IN  [g EXCEPT !.store.step = s.step]

\* an error raised inside the inner try, through both handlers
handleFailure(s, tok, e) ==
    LET f == innerCatch(s, tok, e)
    IN  IF f.outcome = "throw" THEN outerCatch(f.store, f.token, f.thrown) ELSE f

\* mutant: no token resets the whole store
initializeNoToken_resets(s) == resetStore(s)

\* the else branch: no token
initializeNoToken(s) == setStep(s, 0)

\* a settled invocation
Settled(f, calls, n) ==
    [pc |-> "done", calls |-> calls, runs |-> n,
     result |-> IF f.outcome = "throw" THEN "rejected" ELSE "returned",
     thrown |-> f.thrown]
Awaiting(pc, calls, n) ==
    [pc |-> pc, calls |-> calls, runs |-> n, result |-> "none", thrown |-> NoError]
IdleProc == Awaiting("idle", <<>>, 0)

\* mutant: the progress is asked for together with the profile
initializeBegin_parallel(s, tok, n) ==
    IF tok = NoToken
    THEN [store |-> initializeNoToken(s), token |-> tok,
          proc |-> Settled(Frame(s, tok, "return", NoError), <<>>, n)]
    ELSE LET s1 == [s EXCEPT !.isUserLoading = TRUE]
             d == decodeToken(tok)
         IN  IF ~d.ok
             THEN LET f == handleFailure(s1, tok, DecodeError)
                  IN  [store |-> f.store, token |-> f.token, proc |-> Settled(f, <<>>, n)]
             ELSE [store |-> IF d.wallet # "" THEN setUser(s1, StubUser(d.wallet)) ELSE s1,
                   token |-> tok,
                   proc |-> Awaiting("awaitProgress", <<getOnboardingProgress>>, n)]

\* initialize up to its first await: [store, token, proc]
initializeBegin(s, tok, n) ==
    IF tok = NoToken
    THEN [store |-> initializeNoToken(s), token |-> tok,
          proc |-> Settled(Frame(s, tok, "return", NoError), <<>>, n)]
    ELSE LET s1 == [s EXCEPT !.isUserLoading = TRUE]
             d == decodeToken(tok)
         IN  IF ~d.ok
             THEN LET f == handleFailure(s1, tok, DecodeError)
                  IN  [store |-> f.store, token |-> f.token, proc |-> Settled(f, <<>>, n)]
             ELSE IF d.wallet # ""
             THEN LET s2 == setUser(s1, StubUser(d.wallet))
                  IN  IF fetchUserGuard(s2)
                      THEN [store |-> fetchUserBegin(s2), token |-> tok,
                            proc |-> Awaiting("awaitProfile", <<getUserProfile(s2.user.wallet)>>, n)]
                      ELSE [store |-> s2, token |-> tok,
                            proc |-> Awaiting("awaitProgress", <<getOnboardingProgress>>, n)]
             ELSE [store |-> s1, token |-> tok,
                   proc |-> Awaiting("awaitProgress", <<getOnboardingProgress>>, n)]

\* initialize from the answer of getOnboardingProgress on
initializeEnd(s, tok, o) ==
    IF o.ok
    THEN LET f == applyProgress(s, tok, o.progress)
         IN  IF f.outcome = "throw" THEN handleFailure(f.store, f.token, f.thrown) ELSE f
    ELSE handleFailure(s, tok, o.error)

ProgressOk(p) == [ok |-> TRUE, progress |-> p, error |-> NoError]
ProgressFails(e) == [ok |-> FALSE, progress |-> NullProgress, error |-> e]

ProgressOutcomes ==
    {ProgressOk(ArrayProgress(cs)) : cs \in SeqsUpTo(StepIds, MaxSteps)} \cup
    {ProgressOk(NotArrayProgress), ProgressOk(NullProgress)} \cup
    {ProgressFails(e) : e \in ServerErrors}

\* the invocations of initialize that may be in flight together; the pages
\* below run one at a time in the first
Slots == {1, 2}
Procs == {1}

\* standalone fetchUser / fetchOnboardingProgress calls
IdleFetch == [pc |-> "idle", calls |-> <<>>, runs |-> 0, result |-> "none"]
NoFetches == [user |-> IdleFetch, progress |-> IdleFetch]

NoSnap == [store |-> InitialStore, token |-> NoToken, calls |-> 0]

\* a call of initialize, run to its first await
CallInitialize(i) ==
    /\ init[i].pc \in {"idle", "done"}
    /\ init[i].runs < MaxRuns
    /\ LET r == initializeBegin(store, token, init[i].runs + 1)
       IN  /\ store' = r.store
           /\ token' = r.token
           /\ init' = [init EXCEPT ![i] = r.proc]
    /\ disconnectRan' = FALSE
    /\ UNCHANGED <<server, wagmi, url, mounted, ctl, fetch, auth, invite>>

InitializeCall(i) == CallInitialize(i) /\ UNCHANGED snap

\* getUserProfile answers; fetchUser finishes and initialize asks for the progress
ProfileResponse(i) ==
    /\ init[i].pc = "awaitProfile"
    /\ store' = fetchUserEnd(store, server.profile = "ok", init[i].calls[1].wallet)
    /\ init' = [init EXCEPT ![i] = Awaiting("awaitProgress", Append(init[i].calls, getOnboardingProgress), init[i].runs)]
    /\ disconnectRan' = FALSE
    /\ UNCHANGED <<token, server, wagmi, url, mounted, ctl, fetch, snap, auth, invite>>

\* getOnboardingProgress answers; initialize runs to its end
ProgressResponse(i) ==
    /\ init[i].pc = "awaitProgress"
    /\ LET f == initializeEnd(store, token, server.progress)
       IN  /\ store' = f.store
           /\ token' = f.token
           /\ init' = [init EXCEPT ![i] = Settled(f, init[i].calls, init[i].runs)]
    /\ disconnectRan' = FALSE
    /\ UNCHANGED <<server, wagmi, url, mounted, ctl, fetch, snap, auth, invite>>

\* the onboarding screens move the step: setStep(n)
StepRange == 0..7

SetStep(n) ==
    /\ store' = setStep(store, n)
    /\ disconnectRan' = FALSE
    /\ UNCHANGED <<token, server, init, wagmi, url, mounted, ctl, fetch, snap, auth, invite>>

----------------------------------------------------------------------------
(* ConnectWallet *)

\* texts are sequences of words, codes sequences of characters; the empty
\* sequence stands for null and for the empty string alike (both are falsy)
NoMessage == <<>>
NoCode == <<>>
NoSignature == <<>>
NoCaptcha == <<>>
PendingMarker == <<"pending">>
DiscordLinkedMessage ==
    <<"Your", "Discord", "account", "has", "been", "linked", ",", "but", "you", "need", "to",
      "enter", "an", "invite", "code", "to", "activate", "your", "account", ".">>

InitialCtl ==
    [isLoading |-> FALSE, error |-> NoMessage, needsInviteCode |-> FALSE, inviteCode |-> NoCode,
     inviteError |-> NoMessage, hcaptchaToken |-> NoCaptcha,
     pendingSignature |-> NoSignature, pendingWallet |-> "",
     previousConnectionState |-> "null", wasEverConnected |-> FALSE]

\* nothing asked, so nothing to be answered
NoAnswer == [ok |-> FALSE, none |-> TRUE]

\* no handler running
IdleAuth ==
    [pc |-> "idle", handler |-> "none", branch |-> "none", address |-> "", wallet |-> "",
     code |-> NoCode, captcha |-> NoCaptcha, signature |-> NoSignature, calls |-> <<>>,
     answer |-> NoAnswer, slot |-> 0, detached |-> {}]

\* InviteCodeDisplay's useState cells; cycles are the runs of fetchUserData
NoStats == ""
NoQuota == ""
InitialInvite ==
    [cycles |-> <<>>, error |-> NoMessage, inviteQuota |-> NoQuota, loading |-> TRUE,
     quotaLoading |-> FALSE, referralCode |-> NoCode, referralCount |-> NoStats,
     referralXP |-> NoStats]

UrlCode == <<"A", "B", "C">>
NoUrl == [requireInvite |-> FALSE, discordLinked |-> FALSE, code |-> NoCode]
Urls == [requireInvite : BOOLEAN, discordLinked : BOOLEAN, code : {NoCode, UrlCode}]

Disconnected == [isConnected |-> FALSE, address |-> ""]
Connected(a) == [isConnected |-> TRUE, address |-> a]

\* what a handler or effect leaves: store, token, component state, and
\* whether handleDisconnect ran
World(s, tok, c, ran) == [store |-> s, token |-> tok, ctl |-> c, ran |-> ran]

\* mutant: clears the token and the step but keeps the fetched user and progress
handleDisconnect_keepsUser(w, code) ==
    World(setStep(w.store, 0), NoToken,
          [w.ctl EXCEPT !.error = NoMessage, !.needsInviteCode = FALSE,
                        !.pendingSignature = NoSignature,
                        !.pendingWallet = "", !.inviteCode = code, !.inviteError = NoMessage],
          TRUE)

\* handleDisconnect; code is referralCodeFromUrl
handleDisconnect(w, code) ==
    World(setStep(setUser(resetStore(w.store), NullUser), 0), NoToken,
          [w.ctl EXCEPT !.error = NoMessage, !.needsInviteCode = FALSE,
                        !.pendingSignature = NoSignature,
                        !.pendingWallet = "", !.inviteCode = code, !.inviteError = NoMessage],
          TRUE)

\* const isReallyConnected = isConnected || wasEverConnected
isReallyConnected(acct, c) == acct.isConnected \/ c.wasEverConnected

\* useEffect [referralCodeFromUrl]
referralEffect(w, u) ==
    IF u.code # NoCode THEN [w EXCEPT !.ctl.inviteCode = u.code] ELSE w

\* useEffect [requireInvite, discordLinked, isConnected, address]
discordEffect(w, u, acct) ==
    IF (u.requireInvite \/ u.discordLinked) /\ acct.isConnected /\ acct.address # ""
    THEN [w EXCEPT !.ctl.needsInviteCode = TRUE, !.ctl.pendingWallet = acct.address,
                   !.ctl.error = DiscordLinkedMessage]
    ELSE w

\* useEffect [isConnected]: the connection memory
connectionMemoryEffect(w, acct) ==
    IF acct.isConnected THEN [w EXCEPT !.ctl.wasEverConnected = TRUE] ELSE w

\* useEffect [isReallyConnected]: prev and really are the values the render saw
connectionTrackingEffect(w, u, prev, really) ==
    LET w1 == IF prev = "true" /\ ~really THEN handleDisconnect(w, u.code) ELSE w
    IN  [w1 EXCEPT !.ctl.previousConnectionState = IF really THEN "true" ELSE "false"]

\* useEffect []: the token check on mount
tokenCheckEffect(w, u, really, pendingSignature) ==
    IF really /\ pendingSignature # PendingMarker /\ w.token = NoToken
    THEN handleDisconnect(w, u.code)
    ELSE w

\* the effects of the first render, in the order they are declared
mountEffects(w, u, acct) ==
    LET c0 == w.ctl
        really == isReallyConnected(acct, c0)
        w1 == referralEffect(w, u)
        w2 == discordEffect(w1, u, acct)
        w3 == connectionMemoryEffect(w2, acct)
        w4 == connectionTrackingEffect(w3, u, c0.previousConnectionState, really)
    IN  tokenCheckEffect(w4, u, really, c0.pendingSignature)

\* the effects whose dependencies changed when useAccount() went from old to new
accountEffects(w, u, old, new) ==
    LET c0 == w.ctl
        w2 == discordEffect(w, u, new)
        w3 == IF new.isConnected # old.isConnected THEN connectionMemoryEffect(w2, new) ELSE w2
    IN  IF isReallyConnected(new, c0) # isReallyConnected(old, c0)
        THEN connectionTrackingEffect(w3, u, c0.previousConnectionState, isReallyConnected(new, c0))
        ELSE w3

\* ConnectWallet mounts: fresh state, first render, effects
Mount ==
    /\ ~mounted
    /\ mounted' = TRUE
    /\ LET w == mountEffects(World(store, token, InitialCtl, FALSE), url, wagmi)
       IN  /\ store' = w.store
           /\ token' = w.token
           /\ ctl' = w.ctl
           /\ disconnectRan' = w.ran
    /\ UNCHANGED <<server, init, wagmi, url, fetch, snap, auth, invite>>

Unmount ==
    /\ mounted
    /\ mounted' = FALSE
    /\ ctl' = InitialCtl
    /\ disconnectRan' = FALSE
    /\ UNCHANGED <<store, token, server, init, wagmi, url, fetch, snap, auth, invite>>

\* useAccount() changes to new; a mounted ConnectWallet renders and runs its effects
AccountChange(new) ==
    /\ wagmi' = new
    /\ IF mounted
       THEN LET w == accountEffects(World(store, token, ctl, FALSE), url, wagmi, new)
            IN  /\ store' = w.store
                /\ token' = w.token
                /\ ctl' = w.ctl
                /\ disconnectRan' = w.ran
       ELSE /\ disconnectRan' = FALSE
            /\ UNCHANGED <<store, token, ctl, auth, invite>>
    /\ UNCHANGED <<server, init, url, mounted, fetch, snap, auth, invite>>

WalletConnects(a) == ~wagmi.isConnected /\ AccountChange(Connected(a))
WalletDisconnects == wagmi.isConnected /\ AccountChange(Disconnected)
WalletSwitches(a) == wagmi.isConnected /\ wagmi.address # a /\ AccountChange(Connected(a))

----------------------------------------------------------------------------
(* Reconciliation alone: one page, any persisted token, any server *)

InitRecon ==
    /\ store = InitialStore
    /\ token \in Tokens \cup {NoToken}
    /\ server \in [profile : {"ok", "fail"}, progress : ProgressOutcomes]
    /\ init = [i \in Slots |-> IdleProc]
    /\ wagmi = Disconnected
    /\ url = NoUrl
    /\ mounted = FALSE
    /\ ctl = InitialCtl
    /\ disconnectRan = FALSE
    /\ fetch = NoFetches
    /\ snap = NoSnap
    /\ auth = IdleAuth
    /\ invite = InitialInvite

NextRecon ==
    \/ \E i \in Procs : InitializeCall(i)
    \/ \E i \in Procs : ProfileResponse(i)
    \/ \E i \in Procs : ProgressResponse(i)
    \/ \E n \in StepRange : SetStep(n)

SpecRecon == InitRecon /\ [][NextRecon]_vars

----------------------------------------------------------------------------
(* Reconciliation called again and again, nothing else touching the store *)

\* the screens set the step only before the first call
SetStepBeforeLoad(n) == (\A i \in Slots : init[i].runs = 0) /\ SetStep(n)

NextTwice ==
    \/ \E i \in Procs : InitializeCall(i)
    \/ \E i \in Procs : ProfileResponse(i)
    \/ \E i \in Procs : ProgressResponse(i)
    \/ \E n \in StepRange : SetStepBeforeLoad(n)

SpecTwice == InitRecon /\ [][NextTwice]_vars

----------------------------------------------------------------------------
(* The component on a page: wallet events, mounting, reconciliation *)

ConnProgressOutcomes ==
    { ProgressOk(ArrayProgress(<<>>)),
      ProgressOk(ArrayProgress(<<"add_helios_network", "claim_from_faucet", "mint_early_bird_nft">>)),
      ProgressFails(Err(<<"Network", "Error">>, StatusServerError, FALSE, TRUE)),
      ProgressFails(Err(<<"Network", "Error">>, StatusServerError, FALSE, FALSE)) }

InitConn ==
    /\ store = InitialStore
    /\ token \in {NoToken, TokenFor("0xA")}
    /\ server \in [profile : {"ok", "fail"}, progress : ConnProgressOutcomes]
    /\ init = [i \in Slots |-> IdleProc]
    /\ wagmi = Disconnected
    /\ url \in Urls
    /\ mounted = FALSE
    /\ ctl = InitialCtl
    /\ disconnectRan = FALSE
    /\ fetch = NoFetches
    /\ snap = NoSnap
    /\ auth = IdleAuth
    /\ invite = InitialInvite

NextConn ==
    \/ \E i \in Procs : InitializeCall(i)
    \/ \E i \in Procs : ProfileResponse(i)
    \/ \E i \in Procs : ProgressResponse(i)
    \/ Mount
    \/ Unmount
    \/ \E a \in Wallets : WalletConnects(a)
    \/ WalletDisconnects
    \/ \E a \in Wallets : WalletSwitches(a)

SpecConn == InitConn /\ [][NextConn]_vars

----------------------------------------------------------------------------
(* The store's own fetches, logout and a pending reconciliation *)

MaxFetches == 2

FetchAwaiting(calls, n) == [pc |-> "await", calls |-> calls, runs |-> n, result |-> "none"]
FetchSettled(calls, n) == [pc |-> "done", calls |-> calls, runs |-> n, result |-> "returned"]

\* fetchUser up to its await: [store, proc]
fetchUserCall(s, n) ==
    IF fetchUserGuard(s)
    THEN [store |-> fetchUserBegin(s),
          proc |-> FetchAwaiting(<<getUserProfile(s.user.wallet)>>, n)]
    ELSE [store |-> s, proc |-> FetchSettled(<<>>, n)]

\* mutant: a failed fetch drops the progress held
fetchOnboardingProgressEnd_clearsOnFailure(s, o) ==
    setOnboardingProgress(s, o.progress)

\* fetchOnboardingProgress from the answer on: try / catch
fetchOnboardingProgressEnd(s, o) ==
    IF o.ok THEN setOnboardingProgress(s, o.progress) ELSE s

FetchUserCall ==
    /\ fetch.user.pc \in {"idle", "done"}
    /\ fetch.user.runs < MaxFetches
    /\ LET r == fetchUserCall(store, fetch.user.runs + 1)
       IN  /\ store' = r.store
           /\ fetch' = [fetch EXCEPT !.user = r.proc]
    /\ disconnectRan' = FALSE
    /\ UNCHANGED <<token, server, init, wagmi, url, mounted, ctl, snap, auth, invite>>

FetchUserResponse ==
    /\ fetch.user.pc = "await"
    /\ store' = fetchUserEnd(store, server.profile = "ok", fetch.user.calls[1].wallet)
    /\ fetch' = [fetch EXCEPT !.user = FetchSettled(fetch.user.calls, fetch.user.runs)]
    /\ disconnectRan' = FALSE
    /\ UNCHANGED <<token, server, init, wagmi, url, mounted, ctl, snap, auth, invite>>

FetchProgressCall ==
    /\ fetch.progress.pc \in {"idle", "done"}
    /\ fetch.progress.runs < MaxFetches
    /\ fetch' = [fetch EXCEPT !.progress = FetchAwaiting(<<getOnboardingProgress>>, fetch.progress.runs + 1)]
    /\ disconnectRan' = FALSE
    /\ UNCHANGED <<store, token, server, init, wagmi, url, mounted, ctl, snap, auth, invite>>

FetchProgressResponse ==
    /\ fetch.progress.pc = "await"
    /\ store' = fetchOnboardingProgressEnd(store, server.progress)
    /\ fetch' = [fetch EXCEPT !.progress = FetchSettled(fetch.progress.calls, fetch.progress.runs)]
    /\ disconnectRan' = FALSE
    /\ UNCHANGED <<token, server, init, wagmi, url, mounted, ctl, snap, auth, invite>>

\* logout(): the token is removed and the store cleared
Logout ==
    /\ token' = NoToken
    /\ store' = logout(store)
    /\ disconnectRan' = FALSE
    /\ UNCHANGED <<server, init, wagmi, url, mounted, ctl, fetch, snap, auth, invite>>

\* resetStore(): the store cleared, the token left alone
ResetStore ==
    /\ store' = resetStore(store)
    /\ disconnectRan' = FALSE
    /\ UNCHANGED <<token, server, init, wagmi, url, mounted, ctl, fetch, snap, auth, invite>>

MaxXp == 10
XpAmount == 10

\* addXP(amount)
AddXP ==
    /\ store.xp + XpAmount <= MaxXp
    /\ store' = addXP(store, XpAmount)
    /\ disconnectRan' = FALSE
    /\ UNCHANGED <<token, server, init, wagmi, url, mounted, ctl, fetch, snap, auth, invite>>

SessionTokens == {NoToken, TokenFor("0xA"), <<Seg(""), Seg(""), BadSeg>>}

SessionProgressOutcomes ==
    { ProgressOk(ArrayProgress(<<>>)),
      ProgressOk(ArrayProgress(<<"add_helios_network", "claim_from_faucet">>)),
      ProgressFails(Err(<<"Network", "Error">>, StatusServerError, FALSE, FALSE)),
      ProgressFails(Err(<<"Network", "Error">>, StatusServerError, FALSE, TRUE)) }

SessionServers == [profile : {"ok", "fail"}, progress : SessionProgressOutcomes]

\* the server's answers change between requests
ServerChanges ==
    /\ server' \in SessionServers \ {server}
    /\ disconnectRan' = FALSE
    /\ UNCHANGED <<store, token, init, wagmi, url, mounted, ctl, fetch, snap, auth, invite>>

InitSession ==
    /\ store = InitialStore
    /\ token \in SessionTokens
    /\ server \in SessionServers
    /\ init = [i \in Slots |-> IdleProc]
    /\ wagmi = Disconnected
    /\ url = NoUrl
    /\ mounted = FALSE
    /\ ctl = InitialCtl
    /\ disconnectRan = FALSE
    /\ fetch = NoFetches
    /\ snap = NoSnap
    /\ auth = IdleAuth
    /\ invite = InitialInvite

NextSession ==
    \/ \E i \in Procs : InitializeCall(i)
    \/ \E i \in Procs : ProfileResponse(i)
    \/ \E i \in Procs : ProgressResponse(i)
    \/ FetchUserCall
    \/ FetchUserResponse
    \/ FetchProgressCall
    \/ FetchProgressResponse
    \/ Logout
    \/ ResetStore
    \/ AddXP
    \/ ServerChanges

SpecSession == InitSession /\ [][NextSession]_vars

----------------------------------------------------------------------------
(* Two invocations of initialize pending at once *)

InFlight(i) == init[i].pc \in {"awaitProfile", "awaitProgress"}

\* a call of initialize; the store and token found by a call made while no
\* other is pending are remembered, and the calls overlapping it counted
ObservedCall(i) ==
    /\ CallInitialize(i)
    /\ snap' = IF \E j \in Slots : InFlight(j)
               THEN [snap EXCEPT !.calls = @ + 1]
               ELSE [store |-> store, token |-> token, calls |-> 1]

\* one invocation of initialize run alone to its end: [store, token]
SingleRun(s, tok, srv) ==
    LET b == initializeBegin(s, tok, 1)
    IN  IF b.proc.pc = "done" THEN [store |-> b.store, token |-> b.token]
        ELSE LET s1 == IF b.proc.pc = "awaitProfile"
                       THEN fetchUserEnd(b.store, srv.profile = "ok", b.proc.calls[1].wallet)
                       ELSE b.store
                 f == initializeEnd(s1, b.token, srv.progress)
             IN  [store |-> f.store, token |-> f.token]

OverlapProgressOutcomes ==
    ConnProgressOutcomes \cup
    { ProgressOk(ArrayProgress(<<"add_helios_network">>)),
      ProgressOk(ArrayProgress(<<"share_on_x">>)),
      ProgressOk(NotArrayProgress),
      ProgressFails(Err(<<"Network", "Error">>, StatusForbidden, FALSE, FALSE)) }

InitOverlap ==
    /\ store = InitialStore
    /\ token \in Tokens \cup {NoToken}
    /\ server \in [profile : {"ok", "fail"}, progress : OverlapProgressOutcomes]
    /\ init = [i \in Slots |-> IdleProc]
    /\ wagmi = Disconnected
    /\ url = NoUrl
    /\ mounted = FALSE
    /\ ctl = InitialCtl
    /\ disconnectRan = FALSE
    /\ fetch = NoFetches
    /\ snap = NoSnap
    /\ auth = IdleAuth
    /\ invite = InitialInvite

NextOverlap ==
    \/ \E i \in Slots : ObservedCall(i)
    \/ \E i \in Slots : ProfileResponse(i)
    \/ \E i \in Slots : ProgressResponse(i)
    \/ \E n \in StepRange : SetStepBeforeLoad(n)

SpecOverlap == InitOverlap /\ [][NextOverlap]_vars

----------------------------------------------------------------------------
(* ConnectWallet: signing, login, registration with an invite code, bot verification *)

\* an error object as the handlers look at it: code, instanceof NetworkError, message
JsError(code, network, msg) == [code |-> code, network |-> network, message |-> msg]

WalletNotConnected == <<"Wallet", "not", "connected">>
FailedToSign == <<"Failed", "to", "sign", "message">>
DeclinedMessage == <<"You", "declined", "the", "signature", "request", ".">>
DeclinedRetryMessage ==
    <<"You", "declined", "the", "signature", "request", ".", "Please", "try", "again", ".">>
CancelledMessage == <<"You", "cancelled", "the", "signature", "request", ".">>
VerifyBotPrompt == <<"Please", "verify", "you", "are", "not", "a", "bot", "to", "continue", ".">>
RegisterPrompt ==
    <<"Please", "enter", "an", "invite", "code", "to", "register", "your", "account", ".">>
NotConfirmedPrompt ==
    <<"Your", "account", "is", "not", "confirmed", ".", "Please", "enter", "a", "valid",
      "invite", "code", "to", "proceed", ".">>
ServersUnreachable ==
    <<"Failed", "to", "connect", "to", "Helios", "servers", ".", "Please", "try", "again", "later", ".">>
UnknownAuthError == <<"An", "unknown", "error", "occurred", "during", "authentication", ".">>
InviteCodeRequired == <<"Invite", "code", "is", "required">>
ConnectWalletFirst ==
    <<"Authentication", "error", ".", "Please", "connect", "your", "wallet", "first", ".">>
CaptchaToProceed ==
    <<"Please", "complete", "the", "captcha", "verification", "to", "proceed", ".">>
CaptchaRequired == <<"Please", "complete", "the", "captcha", "verification", ".">>
CaptchaToContinue == <<"Please", "complete", "the", "captcha", "to", "continue", ".">>
NoUserData == <<"No", "user", "data", "received", "from", "server">>
RegisterFailed == <<"Failed", "to", "register", "or", "confirm", "account", ".">>
VerificationFailed ==
    <<"An", "unexpected", "error", "occurred", "during", "verification", ".">>
NoWalletAddress == <<"No", "wallet", "address", "found">>

\* error.message || fallback
MessageOr(msg, fallback) == IF msg # <<>> THEN msg ELSE fallback

\* the two challenges and a signature over one of them by wallet w
LoginChallenge == "login"
VerifyChallenge == "verify"
Signature(challenge, w) == <<"sig", challenge, w>>

\* what the wallet provider answers to a signature request
SignErrors ==
    { JsError("4001", FALSE, <<"Request", "failed">>),
      JsError("ACTION_REJECTED", FALSE, <<"user", "rejected", "action">>),
      JsError("none", FALSE, <<"access", "denied">>),
      JsError("none", FALSE, <<"Internal", "error">>) }
SignOk == [ok |-> TRUE, stage |-> "signMessage", error |-> JsError("none", FALSE, <<>>)]
SignFails(stage, e) == [ok |-> FALSE, stage |-> stage, error |-> e]
SignOutcomes ==
    {SignOk} \cup {SignFails(st, e) : st \in {"getSigner", "signMessage"}, e \in SignErrors}

\* mutant: every failure is rethrown as "Failed to sign message"
signMessage_wrapsAll(address, o) ==
    IF o.ok THEN [ok |-> TRUE, value |-> Signature(LoginChallenge, address), thrown |-> o.error]
    ELSE [ok |-> FALSE, value |-> NoSignature, thrown |-> JsError("none", FALSE, FailedToSign)]

\* signMessage: a failure of getSigner is awaited inside the try and rethrown
\* as "Failed to sign message"; the promise of signer.signMessage is returned
\* without await, so its rejection passes the catch as it is
signMessage(address, o) ==
    IF o.ok THEN [ok |-> TRUE, value |-> Signature(LoginChallenge, address), thrown |-> o.error]
    ELSE IF o.stage = "getSigner"
    THEN [ok |-> FALSE, value |-> NoSignature, thrown |-> JsError("none", FALSE, FailedToSign)]
    ELSE [ok |-> FALSE, value |-> NoSignature, thrown |-> o.error]

\* the inline signing of handleBotVerification: both awaits inside its own try
signVerification(address, o) ==
    IF o.ok THEN [ok |-> TRUE, value |-> Signature(VerifyChallenge, address), thrown |-> o.error]
    ELSE [ok |-> FALSE, value |-> NoSignature, thrown |-> o.error]

\* signError.code === 4001 || message includes "rejected" || message includes "denied"
isDeclined(e) ==
    \/ e.code = "4001"
    \/ Includes(e.message, <<"rejected">>)
    \/ Includes(e.message, <<"denied">>)

\* the same test in handleBotVerification, which also knows the code of ethers v6
isCancelled(e) == isDeclined(e) \/ e.code = "ACTION_REJECTED"

\* mutant: looks at the message before the kind of error
classifyLoginError_messageFirst(e) ==
    IF Includes(e.message, <<"not", "registered">>) \/ Includes(e.message, <<"User", "not", "found">>)
    THEN "notRegistered"
    ELSE IF Includes(e.message, <<"not", "confirmed">>) THEN "notConfirmed"
    ELSE IF e.network THEN "network"
    ELSE "other"

\* catch (loginError) of handleSignAndAuthenticate
classifyLoginError(e) ==
    IF e.network THEN "network"
    ELSE IF Includes(e.message, <<"not", "registered">>) \/ Includes(e.message, <<"User", "not", "found">>)
    THEN "notRegistered"
    ELSE IF Includes(e.message, <<"not", "confirmed">>) THEN "notConfirmed"
    ELSE "other"

\* String.prototype.trim on a sequence of characters
RECURSIVE trimStart(_)
trimStart(c) == IF c # <<>> /\ Head(c) = " " THEN trimStart(Tail(c)) ELSE c
RECURSIVE trimEnd(_)
trimEnd(c) == IF c # <<>> /\ c[Len(c)] = " " THEN trimEnd(SubSeq(c, 1, Len(c) - 1)) ELSE c
trim(c) == trimEnd(trimStart(c))

\* mutant: the field is taken as typed
codeToUse_untrimmed(field, urlCode) == IF field # <<>> THEN field ELSE urlCode

\* mutant: only the field counts
codeToUse_fieldOnly(field, urlCode) == trim(field)

\* const codeToUse = inviteCode.trim() || referralCodeFromUrl
codeToUse(field, urlCode) == IF trim(field) # <<>> THEN trim(field) ELSE urlCode

\* a call that leaves the page: a signature request or a request to the API
Call(op, w, sig, code, captcha) ==
    [op |-> op, wallet |-> w, signature |-> sig, code |-> code, captcha |-> captcha]
SignRequest(challenge, w) == Call("signMessage", w, <<challenge>>, NoCode, NoCaptcha)
LoginCall(w, sig) == Call("login", w, sig, NoCode, NoCaptcha)
ConfirmCall(w, sig, code, captcha) == Call("confirmAccount", w, sig, code, captcha)
VerifyCall(w, sig, captcha) == Call("verifyBot", w, sig, NoCode, captcha)

\* the user object login and confirmAccount return
AccountUser(w) == [kind |-> "account", wallet |-> w]

\* api.login(wallet, signature): a user (the token is persisted), a
\* bot-verification demand (the api service raises the store's flag), or an error
LoginOk(w) ==
    [ok |-> TRUE, flagged |-> FALSE, user |-> AccountUser(w), token |-> TokenFor(w),
     error |-> JsError("none", FALSE, <<>>)]
LoginFlagged(w, tok) ==
    [ok |-> TRUE, flagged |-> TRUE, user |-> NullUser, token |-> tok,
     error |-> JsError("none", FALSE, <<>>)]
LoginFails(e) ==
    [ok |-> FALSE, flagged |-> FALSE, user |-> NullUser, token |-> NoToken, error |-> e]
LoginErrors ==
    {JsError("none", FALSE, m) :
        m \in {<<"User", "not", "registered">>, <<"User", "not", "found">>,
               <<"Account", "not", "confirmed">>, <<"Invalid", "signature">>, <<>>}} \cup
    {JsError("none", TRUE, m) :
        m \in {<<"Network", "Error">>, <<"User", "not", "registered">>, <<"Account", "not", "confirmed">>}}
LoginOutcomes(w) ==
    {LoginOk(w), LoginFlagged(w, NoToken), LoginFlagged(w, TokenFor(w))} \cup
    {LoginFails(e) : e \in LoginErrors}

\* what the api service has done to the token and the store when login answers
loginEffect(s, tok, o) ==
    [store |-> IF o.ok /\ o.flagged THEN setRequiresBotVerification(s, TRUE) ELSE s,
     token |-> IF o.ok /\ o.token # NoToken THEN o.token ELSE tok]

\* api.confirmAccount(wallet, signature, code, captcha): a user, nothing, or an error
ConfirmOk(w) ==
    [ok |-> TRUE, user |-> AccountUser(w), token |-> TokenFor(w), error |-> JsError("none", FALSE, <<>>)]
ConfirmEmpty ==
    [ok |-> TRUE, user |-> NullUser, token |-> NoToken, error |-> JsError("none", FALSE, <<>>)]
ConfirmFails(e) == [ok |-> FALSE, user |-> NullUser, token |-> NoToken, error |-> e]
ConfirmErrors ==
    { JsError("none", FALSE, <<"Invalid", "invite", "code">>),
      JsError("none", FALSE, <<"Invite", "code", "rejected">>),
      JsError("none", TRUE, <<"Network", "Error">>) }
ConfirmOutcomes(w) == {ConfirmOk(w), ConfirmEmpty} \cup {ConfirmFails(e) : e \in ConfirmErrors}

confirmEffect(s, tok, o) ==
    [store |-> s, token |-> IF o.ok /\ o.token # NoToken THEN o.token ELSE tok]

\* api.verifyBot(wallet, signature, captcha): {success, message?} or an error
VerifyOutcomes ==
    { [ok |-> TRUE, success |-> TRUE, error |-> JsError("none", FALSE, <<>>)],
      [ok |-> TRUE, success |-> FALSE, error |-> JsError("none", FALSE, <<"not", "eligible">>)],
      [ok |-> FALSE, success |-> FALSE, error |-> JsError("none", TRUE, <<"Network", "Error">>)] }

\* what a step of a handler works on and leaves
Page(s, tok, c, a, i) == [store |-> s, token |-> tok, ctl |-> c, auth |-> a, init |-> i]

\* the handler has run to its end (finally: setIsLoading(false))
Finished(pg) ==
    [pg EXCEPT !.auth = [IdleAuth EXCEPT !.detached = pg.auth.detached], !.ctl.isLoading = FALSE]

\* the invocations of initialize that can be started
FreeSlots(i) == {k \in Procs : i[k].pc \in {"idle", "done"} /\ i[k].runs < MaxRuns}
FreeSlot(i) == CHOOSE k \in FreeSlots(i) : \A j \in FreeSlots(i) : k <= j

\* useStore.getState().initialize(): awaited by the handler, or left to itself
launchInitialize(pg, awaited) ==
    LET k == FreeSlot(pg.init)
        r == initializeBegin(pg.store, pg.token, pg.init[k].runs + 1)
    IN  [pg EXCEPT !.store = r.store, !.token = r.token,
                   !.init = [pg.init EXCEPT ![k] = r.proc],
                   !.auth.slot = IF awaited THEN k ELSE 0,
                   !.auth.detached = IF awaited THEN @ \ {k} ELSE @ \cup {k}]

\* a handler starts: what its closure holds
Started(handler, branch, acct, c, code) ==
    [IdleAuth EXCEPT !.handler = handler, !.branch = branch, !.address = acct.address,
                     !.wallet = c.pendingWallet, !.code = code, !.captcha = c.hcaptchaToken]

\* handleSignAndAuthenticate up to the signature request
beginAuthenticate(pg, acct) ==
    IF acct.address = ""
    THEN [pg EXCEPT !.ctl.error = WalletNotConnected, !.ctl.isLoading = FALSE]
    ELSE [pg EXCEPT !.ctl.error = NoMessage, !.ctl.isLoading = TRUE,
                    !.auth = [Started("authenticate", "sign", acct, pg.ctl, NoCode)
                                EXCEPT !.pc = "awaitSign",
                                       !.calls = <<SignRequest(LoginChallenge, acct.address)>>,
                                       !.detached = pg.auth.detached]]

\* the outer catch of handleSignAndAuthenticate
surfaceAuthError(pg, e) ==
    Finished([pg EXCEPT !.ctl.error = IF e.network THEN ServersUnreachable
                                      ELSE MessageOr(e.message, UnknownAuthError)])

\* handleSignAndAuthenticate from the answer of the signature request to the login call
authenticateSigned(pg, o) ==
    LET r == signMessage(pg.auth.address, o)
    IN  IF ~r.ok
        THEN surfaceAuthError(pg, IF isDeclined(r.thrown)
                                  THEN JsError("none", FALSE, DeclinedMessage) ELSE r.thrown)
        ELSE [pg EXCEPT !.auth.signature = r.value, !.auth.pc = "awaitLogin",
                        !.auth.calls = Append(@, LoginCall(pg.auth.address, r.value))]

\* mutant: the invite form opens without the signature
needInviteCode_dropsSignature(pg, prompt) ==
    Finished([pg EXCEPT !.ctl.needsInviteCode = TRUE, !.ctl.pendingWallet = pg.auth.address,
                        !.ctl.error = prompt])

\* the invite form opens and keeps the wallet and the signature of this attempt
needInviteCode(pg, prompt) ==
    Finished([pg EXCEPT !.ctl.needsInviteCode = TRUE, !.ctl.pendingWallet = pg.auth.address,
                        !.ctl.pendingSignature = pg.auth.signature, !.ctl.error = prompt])

\* mutant: a failure that is neither of the known ones opens the invite form
loginFailed_otherOpensForm(pg, e) ==
    LET class == classifyLoginError(e)
    IN  IF class = "network" THEN surfaceAuthError(pg, e)
        ELSE IF class = "notConfirmed" THEN needInviteCode(pg, NotConfirmedPrompt)
        ELSE needInviteCode(pg, RegisterPrompt)

\* catch (loginError) of handleSignAndAuthenticate, then the outer catch
loginFailed(pg, e) ==
    LET class == classifyLoginError(e)
    IN  IF class = "notRegistered" THEN needInviteCode(pg, RegisterPrompt)
        ELSE IF class = "notConfirmed" THEN needInviteCode(pg, NotConfirmedPrompt)
        ELSE surfaceAuthError(pg, e)

\* mutant: a verification demand is treated as a login
authenticateLoggedIn_ignoresFlag(pg, o) ==
    LET api == loginEffect(pg.store, pg.token, o)
        pg1 == [pg EXCEPT !.store = api.store, !.token = api.token]
    IN  IF ~o.ok THEN loginFailed(pg1, o.error)
        ELSE [launchInitialize([pg1 EXCEPT !.store = setUser(@, o.user)], TRUE)
                EXCEPT !.auth.pc = "awaitInitialize"]

\* handleSignAndAuthenticate from the answer of login on
authenticateLoggedIn(pg, o) ==
    LET api == loginEffect(pg.store, pg.token, o)
        pg1 == [pg EXCEPT !.store = api.store, !.token = api.token]
    IN  IF ~o.ok THEN loginFailed(pg1, o.error)
        ELSE IF o.flagged THEN Finished([pg1 EXCEPT !.ctl.error = VerifyBotPrompt])
        ELSE [launchInitialize([pg1 EXCEPT !.store = setUser(@, o.user)], TRUE)
                EXCEPT !.auth.pc = "awaitInitialize"]

\* handleSignAndAuthenticate after the awaited initialize has settled
authenticateInitialized(pg) ==
    LET p == pg.init[pg.auth.slot]
    IN  IF p.result = "rejected"
        THEN loginFailed(pg, JsError("none", FALSE, p.thrown.message))
        ELSE Finished(pg)

\* the catch of handleRegisterWithInvite
surfaceInviteError(pg, e) ==
    Finished([pg EXCEPT !.ctl.inviteError = MessageOr(e.message, RegisterFailed)])

\* the catch around signing and confirming in the branch without a signature
surfaceSigningError(pg, e) ==
    surfaceInviteError(pg, IF isDeclined(e) THEN JsError("none", FALSE, DeclinedRetryMessage) ELSE e)

\* mutant: the form is submitted whatever is missing
beginRegister_noValidation(pg, u) ==
    LET c == pg.ctl
        code == codeToUse(c.inviteCode, u.code)
        a == Started("register", "existing", [address |-> ""], c, code)
    IN  [pg EXCEPT !.ctl.isLoading = TRUE, !.ctl.inviteError = NoMessage,
                   !.auth = [a EXCEPT !.pc = "awaitConfirm", !.signature = c.pendingSignature,
                                      !.calls = <<ConfirmCall(c.pendingWallet, c.pendingSignature,
                                                              code, c.hcaptchaToken)>>,
                                      !.detached = pg.auth.detached]]

\* handleRegisterWithInvite up to its first await
beginRegister(pg, u) ==
    LET c == pg.ctl
        code == codeToUse(c.inviteCode, u.code)
        a == [Started("register", "existing", [address |-> ""], c, code)
                EXCEPT !.detached = pg.auth.detached]
    IN  IF code = NoCode
        THEN [pg EXCEPT !.ctl.inviteError = InviteCodeRequired, !.ctl.isLoading = FALSE]
        ELSE IF c.pendingWallet = ""
        THEN [pg EXCEPT !.ctl.inviteError = ConnectWalletFirst, !.ctl.isLoading = FALSE]
        ELSE LET pg1 == [pg EXCEPT !.ctl.isLoading = TRUE, !.ctl.inviteError = NoMessage]
             IN  IF c.pendingSignature = NoSignature
                 THEN [pg1 EXCEPT !.ctl.pendingSignature = PendingMarker,
                                  !.auth = [a EXCEPT !.pc = "awaitSign", !.branch = "sign",
                                                     !.calls = <<SignRequest(LoginChallenge, c.pendingWallet)>>]]
                 ELSE IF c.hcaptchaToken = NoCaptcha
                 THEN surfaceInviteError([pg1 EXCEPT !.auth = a], JsError("none", FALSE, CaptchaRequired))
                 ELSE [pg1 EXCEPT !.auth = [a EXCEPT !.pc = "awaitConfirm",
                                                     !.signature = c.pendingSignature,
                                                     !.calls = <<ConfirmCall(c.pendingWallet, c.pendingSignature,
                                                                             code, c.hcaptchaToken)>>]]

\* mutant: confirms with the signature the form held before
registerSigned_staleSignature(pg, o) ==
    LET r == signMessage(pg.auth.wallet, o)
        a == pg.auth
    IN  [pg EXCEPT !.auth.pc = "awaitConfirm",
                   !.auth.calls = Append(@, ConfirmCall(a.wallet, pg.ctl.pendingSignature, a.code, a.captcha))]

\* handleRegisterWithInvite, branch without a signature, from the answer of
\* the signature request to the confirmAccount call
registerSigned(pg, o) ==
    LET r == signMessage(pg.auth.wallet, o)
        a == pg.auth
    IN  IF ~r.ok THEN surfaceSigningError(pg, r.thrown)
        ELSE LET pg1 == [pg EXCEPT !.ctl.pendingSignature = r.value, !.auth.signature = r.value]
             IN  IF a.captcha = NoCaptcha
                 THEN surfaceSigningError(pg1, JsError("none", FALSE, CaptchaToProceed))
                 ELSE [pg1 EXCEPT !.auth.pc = "awaitConfirm",
                                  !.auth.calls = Append(@, ConfirmCall(a.wallet, r.value, a.code, a.captcha))]

\* mutant: the form stays open after the account was confirmed
registerConfirmed_keepsForm(pg, o) ==
    LET api == confirmEffect(pg.store, pg.token, o)
        pg1 == [pg EXCEPT !.store = api.store, !.token = api.token]
    IN  IF ~o.ok THEN surfaceInviteError(pg1, o.error)
        ELSE Finished(launchInitialize([pg1 EXCEPT !.store = setUser(@, o.user)], FALSE))

\* handleRegisterWithInvite from the answer of confirmAccount on
registerConfirmed(pg, o) ==
    LET api == confirmEffect(pg.store, pg.token, o)
        pg1 == [pg EXCEPT !.store = api.store, !.token = api.token]
    IN  IF ~o.ok
        THEN IF pg.auth.branch = "sign" THEN surfaceSigningError(pg1, o.error)
             ELSE surfaceInviteError(pg1, o.error)
        ELSE IF o.user = NullUser
        THEN surfaceInviteError(pg1, JsError("none", FALSE, NoUserData))
        ELSE Finished(launchInitialize([pg1 EXCEPT !.store = setUser(@, o.user),
                                                   !.ctl.needsInviteCode = FALSE], FALSE))

\* the catch of handleBotVerification
surfaceVerifyError(pg, e) ==
    Finished([pg EXCEPT !.ctl.error = MessageOr(e.message, VerificationFailed)])

\* handleBotVerification up to the signature request
beginVerify(pg, acct) ==
    IF acct.address = ""
    THEN [pg EXCEPT !.ctl.error = WalletNotConnected]
    ELSE [pg EXCEPT !.ctl.error = NoMessage, !.ctl.isLoading = TRUE,
                    !.auth = [Started("verify", "sign", acct, pg.ctl, NoCode)
                                EXCEPT !.pc = "awaitSign",
                                       !.calls = <<SignRequest(VerifyChallenge, acct.address)>>,
                                       !.detached = pg.auth.detached]]

\* handleBotVerification from the answer of the signature request to the verifyBot call
verifySigned(pg, o) ==
    LET r == signVerification(pg.auth.address, o)
        a == pg.auth
    IN  IF ~r.ok
        THEN surfaceVerifyError(pg, IF isCancelled(r.thrown)
                                    THEN JsError("none", FALSE, CancelledMessage) ELSE r.thrown)
        ELSE IF a.captcha = NoCaptcha
        THEN surfaceVerifyError(pg, JsError("none", FALSE, CaptchaToContinue))
        ELSE [pg EXCEPT !.auth.signature = r.value, !.auth.pc = "awaitVerify",
                        !.auth.calls = Append(@, VerifyCall(a.address, r.value, a.captcha))]

\* mutant: the gate is lowered whatever verifyBot answered
verifyAnswered_lowersAlways(pg, o) ==
    IF ~o.ok THEN surfaceVerifyError([pg EXCEPT !.store = setRequiresBotVerification(@, FALSE)], o.error)
    ELSE Finished(launchInitialize([pg EXCEPT !.store = setRequiresBotVerification(@, FALSE)], FALSE))

\* handleBotVerification from the answer of verifyBot on
verifyAnswered(pg, o) ==
    IF ~o.ok THEN surfaceVerifyError(pg, o.error)
    ELSE IF o.success
    THEN Finished(launchInitialize([pg EXCEPT !.store = setRequiresBotVerification(@, FALSE)], FALSE))
    ELSE Finished(pg)

\* handleConnect: what the main button does while no verification is demanded
handleConnect(pg, acct, u) ==
    LET pg0 == [pg EXCEPT !.ctl.error = NoMessage, !.ctl.isLoading = TRUE]
    IN  IF ~isReallyConnected(acct, pg.ctl) THEN [pg0 EXCEPT !.ctl.isLoading = FALSE]
        ELSE IF pg.ctl.needsInviteCode THEN beginRegister(pg0, u)
        ELSE IF pg.store.requiresBotVerification /\ acct.address # "" THEN beginVerify(pg0, acct)
        ELSE IF u.requireInvite /\ acct.address # ""
        THEN [pg0 EXCEPT !.ctl.pendingWallet = acct.address, !.ctl.needsInviteCode = TRUE,
                         !.ctl.isLoading = FALSE]
        ELSE IF acct.address # "" THEN beginAuthenticate(pg0, acct)
        ELSE [pg0 EXCEPT !.ctl.error = NoWalletAddress, !.ctl.isLoading = FALSE]

\* onClick of the main button
mainButton(pg, acct, u) ==
    IF pg.store.requiresBotVerification THEN beginVerify(pg, acct) ELSE handleConnect(pg, acct, u)

\* the page as a handler finds it, and as it leaves it
Here == Page(store, token, ctl, auth, init)
\* what the call a handler waits on can be answered
AnswersFor(a) ==
    CASE a.pc = "awaitSign" -> SignOutcomes
      [] a.pc = "awaitLogin" -> LoginOutcomes(a.address)
      [] a.pc = "awaitConfirm" -> ConfirmOutcomes(a.wallet)
      [] a.pc = "awaitVerify" -> VerifyOutcomes
      [] OTHER -> {NoAnswer}

\* the handler has run up to its next await; the answer to come is fixed by
\* the provider or the server from then on
Leaves(pg) ==
    /\ store' = pg.store
    /\ token' = pg.token
    /\ ctl' = pg.ctl
    /\ \E o \in AnswersFor(pg.auth) : auth' = [pg.auth EXCEPT !.answer = o]
    /\ init' = pg.init
    /\ disconnectRan' = FALSE
    /\ UNCHANGED <<server, wagmi, url, mounted, fetch, snap, invite>>

\* the main button is pressed; it is disabled while isLoading
ClickMain ==
    /\ mounted
    /\ ~ctl.isLoading
    /\ auth.pc = "idle"
    /\ FreeSlots(init) # {}
    /\ Leaves(mainButton(Here, wagmi, url))

\* the wallet provider answers the signature request
SignResponse ==
    /\ auth.pc = "awaitSign"
    /\ Leaves(CASE auth.handler = "authenticate" -> authenticateSigned(Here, auth.answer)
               [] auth.handler = "register" -> registerSigned(Here, auth.answer)
               [] OTHER -> verifySigned(Here, auth.answer))

LoginResponse ==
    /\ auth.pc = "awaitLogin"
    /\ Leaves(authenticateLoggedIn(Here, auth.answer))

\* the initialize that handleSignAndAuthenticate awaits has settled
AwaitedInitializeSettles ==
    /\ auth.pc = "awaitInitialize"
    /\ init[auth.slot].pc = "done"
    /\ Leaves(authenticateInitialized(Here))

ConfirmResponse ==
    /\ auth.pc = "awaitConfirm"
    /\ Leaves(registerConfirmed(Here, auth.answer))

VerifyResponse ==
    /\ auth.pc = "awaitVerify"
    /\ Leaves(verifyAnswered(Here, auth.answer))

CaptchaToken == <<"captcha">>

\* the captcha widget of the invite form or of the verification panel
CaptchaShown ==
    /\ mounted
    /\ \/ wagmi.isConnected /\ ctl.needsInviteCode
       \/ isReallyConnected(wagmi, ctl) /\ store.requiresBotVerification

SetCtl(c) ==
    /\ ctl' = c
    /\ disconnectRan' = FALSE
    /\ UNCHANGED <<store, token, server, init, wagmi, url, mounted, fetch, snap, auth, invite>>

\* onVerify={setHcaptchaToken}
CaptchaVerified ==
    /\ CaptchaShown
    /\ ctl.hcaptchaToken = NoCaptcha
    /\ SetCtl([ctl EXCEPT !.hcaptchaToken = CaptchaToken])

\* onExpire={() => setHcaptchaToken(null)}
CaptchaExpires ==
    /\ CaptchaShown
    /\ ctl.hcaptchaToken # NoCaptcha
    /\ SetCtl([ctl EXCEPT !.hcaptchaToken = NoCaptcha])

TypedCodes == {<<>>, <<" ">>, <<" ", "X", " ">>}

\* onChange of the invite code field
TypeInviteCode(c) ==
    /\ mounted
    /\ wagmi.isConnected /\ ctl.needsInviteCode
    /\ ctl.inviteCode # c
    /\ SetCtl([ctl EXCEPT !.inviteCode = c])

AuthProgressOutcomes ==
    { ProgressOk(ArrayProgress(<<>>)),
      ProgressFails(Err(<<"Network", "Error">>, StatusServerError, FALSE, TRUE)),
      ProgressFails(Err(<<"Network", "Error">>, StatusForbidden, FALSE, FALSE)),
      ProgressFails(Err(<<"Network", "Error">>, StatusForbidden, FALSE, TRUE)) }

\* a plain entry, an entry with a referral code, and the return from the Discord linking
AuthUrls ==
    { NoUrl,
      [requireInvite |-> FALSE, discordLinked |-> FALSE, code |-> UrlCode],
      [requireInvite |-> TRUE, discordLinked |-> TRUE, code |-> NoCode] }

InitAuth ==
    /\ store = InitialStore
    /\ token = NoToken
    /\ server \in [profile : {"ok", "fail"}, progress : AuthProgressOutcomes]
    /\ init = [i \in Slots |-> IdleProc]
    /\ wagmi = Disconnected
    /\ url \in AuthUrls
    /\ mounted = FALSE
    /\ ctl = InitialCtl
    /\ disconnectRan = FALSE
    /\ fetch = NoFetches
    /\ snap = NoSnap
    /\ auth = IdleAuth
    /\ invite = InitialInvite

NextAuth ==
    \/ Mount
    \/ \E a \in Wallets : WalletConnects(a)
    \/ ClickMain
    \/ SignResponse
    \/ LoginResponse
    \/ AwaitedInitializeSettles
    \/ ConfirmResponse
    \/ VerifyResponse
    \/ \E i \in Procs : ProfileResponse(i)
    \/ \E i \in Procs : ProgressResponse(i)
    \/ CaptchaVerified
    \/ CaptchaExpires
    \/ \E c \in TypedCodes : TypeInviteCode(c)

SpecAuth == InitAuth /\ [][NextAuth]_vars

----------------------------------------------------------------------------
(* ConnectWallet with a wallet that comes and goes, the Back button and reloads *)

\* clearInviteState
clearInviteState(pg) ==
    [pg EXCEPT !.store = setRequiresBotVerification(@, FALSE),
               !.ctl.needsInviteCode = FALSE, !.ctl.pendingSignature = NoSignature,
               !.ctl.pendingWallet = "", !.ctl.inviteCode = NoCode,
               !.ctl.inviteError = NoMessage, !.ctl.error = NoMessage]

\* the Back button, shown under the main button and never disabled
Back ==
    /\ mounted
    /\ isReallyConnected(wagmi, ctl)
    /\ ctl.needsInviteCode \/ store.requiresBotVerification
    /\ LET pg == clearInviteState(Here)
       IN  /\ store' = pg.store
           /\ ctl' = pg.ctl
    /\ disconnectRan' = FALSE
    /\ UNCHANGED <<token, server, init, wagmi, url, mounted, fetch, snap, auth, invite>>

\* the page is left while no handler is running
Leave == auth.pc = "idle" /\ Unmount

\* the application calls initialize on load, once, while no token is persisted;
\* the call settles at once, in a slot of its own
LoadWithoutToken == token = NoToken /\ init[2].runs = 0 /\ InitializeCall(2)

\* the account is not confirmed yet
FormProgressOutcomes ==
    { ProgressFails(Err(<<"Network", "Error">>, StatusForbidden, FALSE, FALSE)) }

\* entries with a referral code: plain, and the return from the Discord linking
FormUrls ==
    { [requireInvite |-> FALSE, discordLinked |-> FALSE, code |-> UrlCode],
      [requireInvite |-> FALSE, discordLinked |-> TRUE, code |-> UrlCode] }

InitForm ==
    /\ store = InitialStore
    /\ token = NoToken
    /\ server \in [profile : {"ok"}, progress : FormProgressOutcomes]
    /\ init = [i \in Slots |-> IdleProc]
    /\ wagmi = Disconnected
    /\ url \in FormUrls
    /\ mounted = FALSE
    /\ ctl = InitialCtl
    /\ disconnectRan = FALSE
    /\ fetch = NoFetches
    /\ snap = NoSnap
    /\ auth = IdleAuth
    /\ invite = InitialInvite

NextForm ==
    \/ Mount
    \/ Leave
    \/ WalletConnects("0xA")
    \/ WalletDisconnects
    \/ LoadWithoutToken
    \/ ClickMain
    \/ Back
    \/ SignResponse
    \/ LoginResponse
    \/ AwaitedInitializeSettles
    \/ ConfirmResponse
    \/ VerifyResponse
    \/ \E i \in Procs : ProfileResponse(i)
    \/ \E i \in Procs : ProgressResponse(i)
    \/ CaptchaVerified
    \/ TypeInviteCode(NoCode)

SpecForm == InitForm /\ [][NextForm]_vars

----------------------------------------------------------------------------
(* InviteCodeDisplay: the referral code, the counts and the invite quota *)

MaxCycles == 2

FailedToLoad == <<"Failed", "to", "load", "user", "data", ".">>

\* the referral code in the profile of a, and the one in the referrals answer
ProfileCode(a) == <<"P", a>>
ReferralsCode(a) == <<"R", a>>

\* Promise.all([getUserProfile(address), getUserReferrals(1, 1)]): both
\* answers, or the rejection of one
DataOk(pc, rc, success, a) ==
    [failed |-> "none", ok |-> TRUE, owner |-> a, profileCode |-> pc, referralsCode |-> rc,
     success |-> success]
DataFails(op) ==
    [failed |-> op, ok |-> FALSE, owner |-> "", profileCode |-> NoCode,
     referralsCode |-> NoCode, success |-> FALSE]
DataOutcomes(a) ==
    {DataOk(pc, rc, s, a) : pc \in {NoCode, ProfileCode(a)}, rc \in {NoCode, ReferralsCode(a)},
                            s \in BOOLEAN} \cup
    {DataFails("getUserProfile"), DataFails("getUserReferrals")}

\* getUserInviteStatus(address): {success, data}, or a rejection
QuotaOutcomes(a) ==
    { [ok |-> TRUE, owner |-> a, success |-> TRUE],
      [ok |-> TRUE, owner |-> a, success |-> FALSE],
      [ok |-> FALSE, owner |-> a, success |-> FALSE] }

NoQuotaAnswer == [ok |-> FALSE, owner |-> "", success |-> FALSE]
NoDataAnswer == DataFails("none")

\* a run of fetchUserData: the address its closure holds, where it stands
\* (or how it ended), and what the requests it has pending will be answered
Cycle(a, pc, d) == [address |-> a, data |-> d, pc |-> pc, quota |-> NoQuotaAnswer]
Ended(c) == c.pc \in {"dataFailed", "quotaFailed", "done"}

\* userProfile?.referralCode || referralsResponse?.referralCode || null
pickReferralCode(d) ==
    IF d.profileCode # NoCode THEN d.profileCode ELSE d.referralsCode

\* fetchUserData up to its await
fetchUserDataBegin(v, a, d) ==
    IF a = "" THEN v
    ELSE [v EXCEPT !.loading = TRUE, !.error = NoMessage,
                   !.cycles = Append(@, Cycle(a, "awaitData", d))]

\* fetchUserData from the answer of Promise.all to the await in fetchInviteQuota
fetchUserDataAnswered(v, k, q) ==
    LET c == v.cycles[k]
    IN  IF ~c.data.ok
        THEN [v EXCEPT !.error = FailedToLoad, !.loading = FALSE,
                       !.cycles[k] = Cycle(c.address, "dataFailed", NoDataAnswer)]
        ELSE [v EXCEPT !.referralCode = pickReferralCode(c.data),
                       !.referralCount = IF c.data.success THEN c.data.owner ELSE @,
                       !.referralXP = IF c.data.success THEN c.data.owner ELSE @,
                       !.quotaLoading = TRUE,
                       !.cycles[k] = [Cycle(c.address, "awaitQuota", NoDataAnswer)
                                         EXCEPT !.quota = q]]

\* mutant: a failure of getUserInviteStatus reaches fetchUserData's catch
fetchInviteQuotaAnswered_throws(v, k) ==
    LET q == v.cycles[k].quota
    IN  [v EXCEPT !.inviteQuota = IF q.ok /\ q.success THEN q.owner ELSE @,
                  !.error = IF q.ok THEN @ ELSE FailedToLoad,
                  !.quotaLoading = FALSE, !.loading = FALSE,
                  !.cycles[k] = Cycle(v.cycles[k].address,
                                      IF q.ok THEN "done" ELSE "quotaFailed", NoDataAnswer)]

\* fetchInviteQuota from the answer of getUserInviteStatus on, and the finally
\* of fetchUserData
fetchInviteQuotaAnswered(v, k) ==
    LET q == v.cycles[k].quota
    IN  [v EXCEPT !.inviteQuota = IF q.ok /\ q.success THEN q.owner ELSE @,
                  !.quotaLoading = FALSE, !.loading = FALSE,
                  !.cycles[k] = Cycle(v.cycles[k].address,
                                      IF q.ok THEN "done" ELSE "quotaFailed", NoDataAnswer)]

\* useAccount() gives another address: the effect [address] runs
AddressChanges(new) ==
    /\ new # wagmi
    /\ Len(invite.cycles) < MaxCycles
    /\ wagmi' = new
    /\ \E d \in DataOutcomes(new.address) :
          invite' = fetchUserDataBegin(invite, new.address, d)
    /\ disconnectRan' = FALSE
    /\ UNCHANGED <<store, token, server, init, url, mounted, ctl, fetch, snap, auth>>

\* the two requests of cycle k have settled; getUserInviteStatus is issued
DataResponse(k) ==
    /\ k \in 1..Len(invite.cycles)
    /\ invite.cycles[k].pc = "awaitData"
    /\ \E q \in QuotaOutcomes(invite.cycles[k].address) :
          invite' = fetchUserDataAnswered(invite, k, q)
    /\ disconnectRan' = FALSE
    /\ UNCHANGED <<store, token, server, init, wagmi, url, mounted, ctl, fetch, snap, auth>>

\* getUserInviteStatus of cycle k has settled
QuotaResponse(k) ==
    /\ k \in 1..Len(invite.cycles)
    /\ invite.cycles[k].pc = "awaitQuota"
    /\ invite' = fetchInviteQuotaAnswered(invite, k)
    /\ disconnectRan' = FALSE
    /\ UNCHANGED <<store, token, server, init, wagmi, url, mounted, ctl, fetch, snap, auth>>

InitInvite ==
    /\ store = InitialStore
    /\ token = TokenFor("0xA")
    /\ server \in [profile : {"ok"}, progress : {ProgressOk(ArrayProgress(<<>>))}]
    /\ init = [i \in Slots |-> IdleProc]
    /\ wagmi \in {Disconnected, Connected("0xA")}
    /\ url = NoUrl
    /\ mounted = FALSE
    /\ ctl = InitialCtl
    /\ disconnectRan = FALSE
    /\ fetch = NoFetches
    /\ snap = NoSnap
    /\ auth = IdleAuth
    /\ \E d \in DataOutcomes(wagmi.address) :
          invite = fetchUserDataBegin(InitialInvite, wagmi.address, d)

NextInvite ==
    \/ \E a \in Wallets : AddressChanges(Connected(a))
    \/ AddressChanges(Disconnected)
    \/ \E k \in 1..MaxCycles : DataResponse(k)
    \/ \E k \in 1..MaxCycles : QuotaResponse(k)

SpecInvite == InitInvite /\ [][NextInvite]_vars

----------------------------------------------------------------------------
(* Properties of the reconciliation *)

\* initialize is called in slot i
Invoked(i) == init'[i].runs = init[i].runs + 1
\* the progress answer arrives in slot i and the invocation ends
ProgressAnswered(i) == init[i].pc = "awaitProgress" /\ init'[i].pc = "done"

NotConfirmedError(e) ==
    \/ Includes(e.message, <<"not", "confirmed">>)
    \/ e.status = StatusForbidden
    \/ e.requiresInviteCode
OtherError(e) == ~NotConfirmedError(e) /\ ~e.requiresBotVerification
UndecodablePayload(tok) == Len(tok) < 2 \/ ~tok[2].b64json

ProgressFailsWith(i) == ProgressAnswered(i) /\ ~server.progress.ok
ProgressArrives(i) ==
    ProgressAnswered(i) /\ server.progress.ok /\ server.progress.progress.kind = "array"
CompletedSteps == server.progress.progress.completedSteps

\* the last call of slot i has ended after a progress fetch
EndedAfterProgress(i) ==
    /\ init[i].pc = "done"
    /\ init[i].calls # <<>>
    /\ init[i].calls[Len(init[i].calls)] = getOnboardingProgress

\* C3: a progress-fetch failure that is account-not-confirmed (message contains
\* "not confirmed", status 403, or the requiresInviteCode flag) always clears
\* the token, sets step 0 and rejects with an error tagged requiresInviteCode.
C3_NotConfirmedClearsAndRejects ==
    [][\A i \in Procs :
        (ProgressFailsWith(i) /\ NotConfirmedError(server.progress.error)) =>
            /\ token' = NoToken
            /\ store'.step = 0
            /\ init'[i].result = "rejected"
            /\ init'[i].thrown.requiresInviteCode]_vars

\* a 403 with a plain message and no flag was answered, and the call rejected
C3_Witness ==
    \E i \in Procs :
        /\ EndedAfterProgress(i)
        /\ server.progress = ProgressFails(Err(<<"Network", "Error">>, StatusForbidden, FALSE, FALSE))
        /\ init[i].result = "rejected"
        /\ init[i].thrown.requiresInviteCode
        /\ token = NoToken

\* C4 as stated: every progress-fetch failure carrying requiresBotVerification,
\* whatever its status or message, raises the gate, keeps the token, leaves the
\* step alone and returns normally.
C4_AnyFlaggedFailureIsGate ==
    [][\A i \in Procs :
        (ProgressFailsWith(i) /\ server.progress.error.requiresBotVerification) =>
            /\ store'.requiresBotVerification
            /\ token' = token
            /\ store'.step = store.step
            /\ init'[i].result = "returned"]_vars

\* C4: a progress-fetch failure carrying requiresBotVerification that is not
\* account-not-confirmed raises the gate, keeps the token, leaves the step alone
\* and returns normally.
C4_FlaggedFailureIsGate ==
    [][\A i \in Procs :
        (/\ ProgressFailsWith(i)
         /\ server.progress.error.requiresBotVerification
         /\ ~NotConfirmedError(server.progress.error)) =>
            /\ store'.requiresBotVerification
            /\ token' = token
            /\ token' # NoToken
            /\ store'.step = store.step
            /\ init'[i].result = "returned"]_vars

\* the gate was raised on step 5 with a 500 answer, token still there
C4_Witness ==
    \E i \in Procs :
        /\ EndedAfterProgress(i)
        /\ server.progress = ProgressFails(Err(<<"Network", "Error">>, StatusServerError, FALSE, TRUE))
        /\ init[i].result = "returned"
        /\ store.requiresBotVerification
        /\ store.step = 5
        /\ token # NoToken

\* a failure of steps 4-6 that is neither not-confirmed nor bot verification
OtherFailure(i) ==
    \/ Invoked(i) /\ token # NoToken /\ UndecodablePayload(token)
    \/ ProgressAnswered(i) /\ server.progress.ok /\ server.progress.progress.kind # "array"
    \/ ProgressFailsWith(i) /\ OtherError(server.progress.error)

C6_ThreeOrMoreIsDashboard ==
    [][\A i \in Procs :
        (ProgressArrives(i) /\ Len(CompletedSteps) >= 3) =>
            store'.step = 7 /\ init'[i].result = "returned"]_vars

\* three steps ending in an unknown identifier were answered
C6_Witness ==
    \E i \in Procs :
        /\ EndedAfterProgress(i)
        /\ server.progress = ProgressOk(ArrayProgress(<<"mint_early_bird_nft", "add_helios_network", "share_on_x">>))
        /\ store.step = 7

\* C7: with one or two completed steps the step comes from the last one only:
\* add_helios_network 4, claim_from_faucet 5, mint_early_bird_nft 6.
C7_LastCompletedStepDecides ==
    [][\A i \in Procs :
        (ProgressArrives(i) /\ Len(CompletedSteps) \in 1..2) =>
            LET lastStep == CompletedSteps[Len(CompletedSteps)]
            IN  /\ lastStep = "add_helios_network" => store'.step = 4
                /\ lastStep = "claim_from_faucet" => store'.step = 5
                /\ lastStep = "mint_early_bird_nft" => store'.step = 6]_vars

\* two steps in reverse order were answered: the last one decided
C7_Witness ==
    \E i \in Procs :
        /\ EndedAfterProgress(i)
        /\ server.progress = ProgressOk(ArrayProgress(<<"mint_early_bird_nft", "add_helios_network">>))
        /\ store.step = 4

\* C8: a fetched progress with no completed step ends at step 2.
C8_NoCompletedStepStartsOnboarding ==
    [][\A i \in Procs :
        (ProgressArrives(i) /\ CompletedSteps = <<>>) =>
            store'.step = 2 /\ init'[i].result = "returned"]_vars

C8_Witness ==
    \E i \in Procs :
        /\ EndedAfterProgress(i)
        /\ server.progress = ProgressOk(ArrayProgress(<<>>))
        /\ token # NoToken
        /\ store.step = 2

\* C9 as stated: token for 0xA, progress [add_helios_network,
\* claim_from_faucet]: the call ends at step 6 and the profile was fetched
\* for 0xA.
C9_ScenarioStepSix ==
    [][\A i \in Procs :
        (/\ ProgressAnswered(i)
         /\ token = TokenFor("0xA")
         /\ server.progress = ProgressOk(ArrayProgress(<<"add_helios_network", "claim_from_faucet">>))) =>
            /\ store'.step = 6
            /\ init'[i].calls = <<getUserProfile("0xA"), getOnboardingProgress>>
            /\ store'.user.wallet = "0xA"
            /\ server.profile = "ok" => store'.user = Profile("0xA")]_vars

\* C9, with the step the table gives for claim_from_faucet: token for 0xA,
\* progress [add_helios_network, claim_from_faucet]: the call ends at step 5
\* and the profile was fetched for 0xA.
C9_ScenarioStepFive ==
    [][\A i \in Procs :
        (/\ ProgressAnswered(i)
         /\ token = TokenFor("0xA")
         /\ server.progress = ProgressOk(ArrayProgress(<<"add_helios_network", "claim_from_faucet">>))) =>
            /\ store'.step = 5
            /\ init'[i].calls = <<getUserProfile("0xA"), getOnboardingProgress>>
            /\ store'.user.wallet = "0xA"
            /\ server.profile = "ok" => store'.user = Profile("0xA")]_vars

C9_Witness ==
    \E i \in Procs :
        /\ EndedAfterProgress(i)
        /\ token = TokenFor("0xA")
        /\ server.progress = ProgressOk(ArrayProgress(<<"add_helios_network", "claim_from_faucet">>))
        /\ store.step = 5
        /\ store.user = Profile("0xA")

\* C10: without a token initialize sets step 0, issues no network call and
\* changes no other store field.
C10_NoTokenNoCalls ==
    [][\A i \in Procs :
        (Invoked(i) /\ token = NoToken) =>
            /\ store' = [store EXCEPT !.step = 0]
            /\ token' = NoToken
            /\ init'[i].calls = <<>>
            /\ init'[i].pc = "done"
            /\ init'[i].result = "returned"]_vars

\* a second call found the token gone, with a user left from the first
C10_Witness ==
    \E i \in Procs :
        /\ init[i].pc = "done"
        /\ init[i].runs = 2
        /\ init[i].calls = <<>>
        /\ token = NoToken
        /\ store.user # NullUser
        /\ store.step = 0

----------------------------------------------------------------------------
(* Properties of the disconnect handling *)

DisconnectedDefault ==
    /\ token = NoToken
    /\ store.step = 0
    /\ store.user = NullUser
    /\ store.onboardingProgress = NullProgress
    /\ ~store.requiresBotVerification

\* C1: every change of the wallet provider from connected to not connected,
\* seen by the mounted component, is followed by disconnect handling: the token
\* is cleared and the store is back at the disconnected default.
C1_ProviderDisconnectIsHandled ==
    [][(mounted /\ wagmi.isConnected /\ ~wagmi'.isConnected) =>
            (disconnectRan' /\ DisconnectedDefault')]_vars

\* C2: handleDisconnect ends with the token absent, user and progress null,
\* requiresBotVerification false, step 0, and needsInviteCode, pendingWallet
\* and pendingSignature cleared.
C2_HandleDisconnectResets ==
    disconnectRan =>
        /\ DisconnectedDefault
        /\ ~ctl.needsInviteCode
        /\ ctl.pendingWallet = ""
        /\ ctl.pendingSignature = NoSignature

\* handleDisconnect ran on a Discord-linked entry, after a reconciliation that
\* had fetched for the token's wallet
C2_Witness ==
    /\ disconnectRan
    /\ url.discordLinked
    /\ wagmi.isConnected
    /\ \E i \in Procs : init[i].pc = "done" /\ init[i].calls # <<>>

----------------------------------------------------------------------------
(* Properties of the reconciliation, continued *)

\* an invocation of slot i ends in this step
Ends(i) == init'[i].pc = "done" /\ (init[i].pc # "done" \/ Invoked(i))

UnknownLastStep(i) ==
    /\ ProgressArrives(i)
    /\ Len(CompletedSteps) \in 1..2
    /\ CompletedSteps[Len(CompletedSteps)] \notin KnownSteps

\* C11: after any run of initialize the step is an integer in 0..7; a last
\* completed step outside the table (with one or two completed steps) is a
\* fatal mapping error: token cleared, step 0.
C11_StepStaysInRange ==
    [][\A i \in Procs :
        /\ Ends(i) => store'.step \in 0..7
        /\ UnknownLastStep(i) => (token' = NoToken /\ store'.step = 0)]_vars

\* C12: a call of initialize made right after another, with the same server
\* answers and nothing else touching the store, ends with the step the call
\* before it ended with: no step of a second or later call changes the step.
C12_SecondCallKeepsStep ==
    [][(\E i \in Procs : init'[i].runs >= 2) => store'.step = store.step]_vars

\* the first call was answered 403 and cleared the token, the second found none
C12_Witness ==
    \E i \in Procs :
        /\ init[i].pc = "done"
        /\ init[i].runs = 2
        /\ init[i].calls = <<>>
        /\ server.progress = ProgressFails(Err(<<"Network", "Error">>, StatusForbidden, FALSE, FALSE))
        /\ store.user # NullUser
        /\ token = NoToken
        /\ store.step = 0

\* an unrecoverable failure: not-confirmed, or other
UnrecoverableFailure(i) ==
    \/ ProgressFailsWith(i) /\ NotConfirmedError(server.progress.error)
    \/ OtherFailure(i)

\* C17: when initialize ends in an unrecoverable auth error the whole session
\* is destroyed: token cleared, requiresBotVerification false and user null.
C17_AuthErrorDestroysSession ==
    [][\A i \in Procs :
        UnrecoverableFailure(i) =>
            /\ token' = NoToken
            /\ store'.step = 0
            /\ ~store'.requiresBotVerification
            /\ store'.user = NullUser]_vars

\* the user the store holds is the one of the connected address
UserOfConnectedWallet(s, acct) ==
    (acct.isConnected /\ s.user # NullUser) => s.user.wallet = acct.address

\* C13: in every reachable state, a user held by the store belongs to the
\* address the wallet provider reports as connected (the store never holds
\* the user of wallet A while wallet B is connected).
C13_StoreFollowsConnectedWallet == UserOfConnectedWallet(store, wagmi)

----------------------------------------------------------------------------
(* Properties of the store's fetches and of logout *)

FetchUserInvoked == fetch'.user.runs = fetch.user.runs + 1
FetchUserAnswered == fetch.user.pc = "await" /\ fetch'.user.pc = "done"
\* fetchUser completes inside invocation i of initialize
ProfileAnswered(i) == init[i].pc = "awaitProfile" /\ init'[i].pc # "awaitProfile"
FetchProgressAnswered == fetch.progress.pc = "await" /\ fetch'.progress.pc = "done"

\* an answer to a request of initialize, issued with a token, after the token was removed
StaleInitializeAnswer(i) ==
    (ProfileAnswered(i) \/ ProgressAnswered(i)) /\ token = NoToken
\* an answer to a request of fetchUser, issued for a user, after the user was cleared
StaleFetchUserAnswer == FetchUserAnswered /\ store.user = NullUser

\* C21: resetStore sets step 0, xp 0, user null, onboardingProgress null,
\* requiresBotVerification false and isUserLoading false, and leaves the
\* persisted token as it was.
C21_ResetStoreClearsAllButToken ==
    [][ResetStore =>
          /\ store'.step = 0
          /\ store'.xp = 0
          /\ store'.user = NullUser
          /\ store'.onboardingProgress = NullProgress
          /\ ~store'.requiresBotVerification
          /\ ~store'.isUserLoading
          /\ token' = token]_vars

\* the store was reset under a pending initialize: the stub user and the
\* loading flag it had set are gone, the token is still there
C21_Witness ==
    /\ \E i \in Procs : init[i].pc = "awaitProfile"
    /\ token # NoToken
    /\ store.step = 0 /\ store.xp = 0 /\ store.user = NullUser
    /\ store.onboardingProgress = NullProgress
    /\ ~store.requiresBotVerification /\ ~store.isUserLoading

\* C22: logout from any state ends with the token absent, step 0, user null,
\* onboardingProgress null and requiresBotVerification false; xp and
\* isUserLoading keep the values they had.
C22_LogoutClearsSession ==
    [][Logout =>
          /\ token' = NoToken
          /\ store'.step = 0
          /\ store'.user = NullUser
          /\ store'.onboardingProgress = NullProgress
          /\ ~store'.requiresBotVerification
          /\ store'.xp = store.xp
          /\ store'.isUserLoading = store.isUserLoading]_vars

\* logged out under a pending initialize: the points and the loading flag are kept
C22_Witness ==
    /\ \E i \in Procs : init[i].pc = "awaitProfile"
    /\ token = NoToken
    /\ store.step = 0 /\ store.user = NullUser
    /\ store.onboardingProgress = NullProgress
    /\ ~store.requiresBotVerification
    /\ store.xp = XpAmount /\ store.isUserLoading

\* C14: an answer of getUserProfile or getOnboardingProgress whose request was
\* issued before a logout and which arrives after it writes neither user,
\* onboardingProgress nor step.
C14_StaleAnswerIgnored ==
    [][((\E i \in Procs : StaleInitializeAnswer(i)) \/ StaleFetchUserAnswer) =>
          /\ store'.user = store.user
          /\ store'.onboardingProgress = store.onboardingProgress
          /\ store'.step = store.step]_vars

NothingInFlight ==
    /\ \A i \in Slots : init[i].pc \in {"idle", "done"}
    /\ fetch.user.pc # "await"
    /\ fetch.progress.pc # "await"

\* C15: in every state with no initialize or fetch in flight, an absent token
\* implies step = 0.
C15_NoTokenMeansStepZero == (NothingInFlight /\ token = NoToken) => store.step = 0

\* C18: fetchUser called while the user is null or has no wallet address
\* issues no getUserProfile call and leaves every store field unchanged.
C18_FetchUserWithoutWalletIsNoOp ==
    [][(FetchUserInvoked /\ store.user.wallet = "") =>
          /\ store' = store
          /\ token' = token
          /\ fetch'.user.calls = <<>>
          /\ fetch'.user.pc = "done"]_vars

C18_Witness ==
    /\ fetch.user.runs >= 1
    /\ fetch.user = FetchSettled(<<>>, fetch.user.runs)
    /\ store.user = NullUser
    /\ store.isUserLoading
    /\ token # NoToken

\* C19: when getUserProfile answers a fetchUser made with a wallet set, on
\* success the user becomes the fetched profile, on failure the user is left
\* as it was; in both cases isUserLoading is false and fetchUser returns
\* normally (inside initialize: initialize goes on to the progress fetch).
C19_FetchUserOutcome ==
    [][/\ FetchUserAnswered =>
            /\ store'.user = IF server.profile = "ok"
                             THEN Profile(fetch.user.calls[1].wallet) ELSE store.user
            /\ ~store'.isUserLoading
            /\ fetch'.user.result = "returned"
       /\ \A i \in Procs : ProfileAnswered(i) =>
            /\ store'.user = IF server.profile = "ok"
                             THEN Profile(init[i].calls[1].wallet) ELSE store.user
            /\ ~store'.isUserLoading
            /\ init'[i].pc = "awaitProgress"]_vars

\* a failed fetchUser has completed and the user it was made for is still there
C19_Witness ==
    /\ fetch.user.pc = "done"
    /\ fetch.user.calls # <<>>
    /\ server.profile = "fail"
    /\ store.user = Profile(fetch.user.calls[1].wallet)
    /\ ~store.isUserLoading

\* C20: when getOnboardingProgress answers a fetchOnboardingProgress, the
\* call returns normally; on failure the store and the token are unchanged;
\* on success onboardingProgress becomes the fetched record and nothing else,
\* the step included, changes.
C20_FetchProgressOutcome ==
    [][FetchProgressAnswered =>
          /\ fetch'.progress.result = "returned"
          /\ token' = token
          /\ store' = IF server.progress.ok
                      THEN [store EXCEPT !.onboardingProgress = server.progress.progress]
                      ELSE store]_vars

\* a failed fetchOnboardingProgress has completed and the progress fetched before is still held
C20_Witness ==
    /\ fetch.progress.pc = "done"
    /\ ~server.progress.ok
    /\ store.onboardingProgress = ArrayProgress(<<"add_helios_network", "claim_from_faucet">>)
    /\ store.step = 5
    /\ token # NoToken

----------------------------------------------------------------------------
(* Properties of overlapping invocations *)

AllSettled == \A i \in Slots : ~InFlight(i)

\* the fields two overlapping invocations are compared on
Observable(s, tok) ==
    [step |-> s.step, user |-> s.user, onboardingProgress |-> s.onboardingProgress,
     requiresBotVerification |-> s.requiresBotVerification, hasToken |-> tok # NoToken]

\* C16: when two invocations of initialize overlapped and both have settled,
\* step, user, onboardingProgress, requiresBotVerification and the presence of
\* the token are what a single invocation, started from the store and token
\* the first one found, would have left.
C16_OverlapEqualsSingleRun ==
    (AllSettled /\ snap.calls = 2) =>
        Observable(store, token) =
            LET r == SingleRun(snap.store, snap.token, server)
            IN  Observable(r.store, r.token)

\* two overlapped invocations have both gone through the progress fetch and ended on a step
C16_Witness ==
    /\ AllSettled
    /\ snap.calls = 2
    /\ \A i \in Slots : init[i].pc = "done" /\ Len(init[i].calls) = 2 /\ init[i].result = "returned"
    /\ store.step = 4
    /\ snap.store.step = 6

----------------------------------------------------------------------------
(* Properties of ConnectWallet's handlers *)

\* the handler named h receives the answer it waits for at pc
Answered(h, pc) == auth.handler = h /\ auth.pc = pc /\ auth'.pc # pc

\* the provider reports that the user declined: code 4001, or "rejected" / "denied" in the message
UserDeclined(e) ==
    \/ e.code = "4001"
    \/ Includes(e.message, <<"rejected">>)
    \/ Includes(e.message, <<"denied">>)

\* the signature request of sign-and-authenticate was declined by the user
SignatureDeclined ==
    /\ Answered("authenticate", "awaitSign")
    /\ ~auth.answer.ok /\ auth.answer.stage = "signMessage"
    /\ UserDeclined(auth.answer.error)

\* the signature request of sign-and-authenticate failed otherwise
SigningFailedOtherwise ==
    /\ Answered("authenticate", "awaitSign")
    /\ ~auth.answer.ok
    /\ auth.answer.stage = "getSigner" \/ ~UserDeclined(auth.answer.error)

\* C23: a signature request of sign-and-authenticate that the user declined
\* surfaces the "declined" error, which no other signing failure surfaces; the
\* attempt ends without a login call and needsInviteCode, pendingSignature,
\* pendingWallet, the store and the token are unchanged.
C23_DeclinedSignatureIsDistinct ==
    [][/\ SignatureDeclined =>
            /\ ctl'.error = DeclinedMessage
            /\ auth'.pc = "idle" /\ ~ctl'.isLoading
            /\ ctl'.needsInviteCode = ctl.needsInviteCode
            /\ ctl'.pendingSignature = ctl.pendingSignature
            /\ ctl'.pendingWallet = ctl.pendingWallet
            /\ store' = store /\ token' = token /\ init' = init
       /\ SigningFailedOtherwise => (ctl'.error # DeclinedMessage /\ auth'.pc = "idle")]_vars

C23_Witness ==
    /\ ctl.error = DeclinedMessage
    /\ auth.pc = "idle" /\ ~ctl.isLoading
    /\ ~ctl.needsInviteCode /\ ctl.pendingSignature = NoSignature
    /\ store = InitialStore /\ token = NoToken

\* login failed as not-registered or not-confirmed (and not as a NetworkError)
LoginRefused ==
    /\ Answered("authenticate", "awaitLogin")
    /\ ~auth.answer.ok /\ ~auth.answer.error.network
    /\ \/ Includes(auth.answer.error.message, <<"not", "registered">>)
       \/ Includes(auth.answer.error.message, <<"User", "not", "found">>)
       \/ Includes(auth.answer.error.message, <<"not", "confirmed">>)

IsSignature(sig) == sig # NoSignature /\ sig # PendingMarker

\* the main button is pressed while the invite form is open
ClickedRegister ==
    /\ ClickMain
    /\ ~store.requiresBotVerification
    /\ wagmi.isConnected \/ ctl.wasEverConnected
    /\ ctl.needsInviteCode

\* the invite code of a submission: the trimmed field value, else the code of the entry URL
SubmittedCode == IF trim(ctl.inviteCode) # NoCode THEN trim(ctl.inviteCode) ELSE url.code

\* the invite form is submitted while it holds a signature
SubmitWithSignature == ClickedRegister /\ IsSignature(ctl.pendingSignature)

\* C24: when login fails as not-registered or not-confirmed the invite form
\* opens with pendingWallet = the connected address and pendingSignature = the
\* signature just obtained; a submission of the form made while it holds a
\* signature requests no signature, and the confirmAccount call it makes
\* carries the form's wallet and signature.
C24_SignatureIsKeptAndReused ==
    [][/\ LoginRefused =>
            /\ ctl'.needsInviteCode
            /\ ctl'.pendingWallet = wagmi.address
            /\ ctl'.pendingSignature = Signature(LoginChallenge, wagmi.address)
            /\ ctl'.pendingSignature = auth.calls[2].signature
       /\ SubmitWithSignature =>
            /\ ctl'.pendingSignature = ctl.pendingSignature
            /\ ctl'.pendingWallet = ctl.pendingWallet
            /\ \/ /\ auth'.pc = "awaitConfirm"
                  /\ auth'.calls = <<ConfirmCall(ctl.pendingWallet, ctl.pendingSignature,
                                                 SubmittedCode, ctl.hcaptchaToken)>>
               \/ /\ auth'.pc = "idle" /\ auth'.calls = <<>>
                  /\ ctl'.inviteError # NoMessage
                  /\ SubmittedCode = NoCode \/ ctl.hcaptchaToken = NoCaptcha]_vars

\* the form opened by a refused login was submitted: confirmAccount is on its
\* way with the signature made for the login
C24_Witness ==
    /\ ~url.requireInvite /\ ~url.discordLinked
    /\ auth.pc = "awaitConfirm" /\ auth.branch = "existing"
    /\ Len(auth.calls) = 1
    /\ auth.calls[1].op = "confirmAccount"
    /\ auth.calls[1].wallet = wagmi.address
    /\ auth.calls[1].signature = Signature(LoginChallenge, wagmi.address)
    /\ ctl.pendingSignature = auth.calls[1].signature

\* login answers that the account must pass the bot verification
LoginDemandsVerification ==
    /\ Answered("authenticate", "awaitLogin")
    /\ auth.answer.ok /\ auth.answer.flagged

LoginFailedOtherwise ==
    /\ Answered("authenticate", "awaitLogin")
    /\ ~auth.answer.ok
    /\ \/ auth.answer.error.network
       \/ /\ ~Includes(auth.answer.error.message, <<"not", "registered">>)
          /\ ~Includes(auth.answer.error.message, <<"User", "not", "found">>)
          /\ ~Includes(auth.answer.error.message, <<"not", "confirmed">>)

\* C26: when login fails with a NetworkError (whatever its message) or with an
\* error that is neither not-registered nor not-confirmed, an error is surfaced
\* and needsInviteCode, pendingWallet, pendingSignature and the store's user,
\* step and requiresBotVerification are unchanged; a NetworkError is surfaced
\* with the cannot-reach-server message, which no other error is.
C26_OtherLoginErrorsChangeNothing ==
    [][LoginFailedOtherwise =>
          /\ ctl'.error # NoMessage
          /\ auth.answer.error.network <=> ctl'.error = ServersUnreachable
          /\ ctl'.needsInviteCode = ctl.needsInviteCode
          /\ ctl'.pendingWallet = ctl.pendingWallet
          /\ ctl'.pendingSignature = ctl.pendingSignature
          /\ store'.user = store.user
          /\ store'.step = store.step
          /\ store'.requiresBotVerification = store.requiresBotVerification
          /\ auth'.pc = "idle"]_vars

C26_Witness ==
    /\ ctl.error = ServersUnreachable
    /\ auth.pc = "idle" /\ ~ctl.isLoading
    /\ ~ctl.needsInviteCode /\ ctl.pendingSignature = NoSignature
    /\ store.user = NullUser

\* a confirmAccount call leaves the page; it is the last call of the attempt
ConfirmIssued == auth'.pc = "awaitConfirm" /\ auth.pc # "awaitConfirm"
ConfirmSent == auth'.calls[Len(auth'.calls)]

\* the submission handler run on the page as it is, had the form lost its wallet
SubmitWithoutWallet == beginRegister([Here EXCEPT !.ctl.pendingWallet = ""], url)

\* C27: every confirmAccount call carries a non-empty invite code (the trimmed
\* field value, else the code of the entry URL), a pending wallet and a CAPTCHA
\* token; a submission without invite code or without pending wallet ends at
\* once with a validation error, no signature request and no network call.
C27_ConfirmPreconditions ==
    [][/\ ConfirmIssued =>
            /\ ConfirmSent.op = "confirmAccount"
            /\ ConfirmSent.code # NoCode
            /\ ConfirmSent.code = auth'.code
            /\ ConfirmSent.wallet # "" /\ ConfirmSent.wallet = auth'.wallet
            /\ ConfirmSent.captcha # NoCaptcha
       /\ (ClickedRegister /\ auth'.pc # "idle") =>
            /\ auth'.handler = "register"
            /\ auth'.code = SubmittedCode
            /\ auth'.wallet = ctl.pendingWallet
            /\ auth'.captcha = ctl.hcaptchaToken
       /\ (auth.handler = "register" /\ auth'.handler = "register") =>
            /\ auth'.code = auth.code
            /\ auth'.wallet = auth.wallet
            /\ auth'.captcha = auth.captcha
       /\ (ClickedRegister /\ (SubmittedCode = NoCode \/ ctl.pendingWallet = "")) =>
            /\ auth'.pc = "idle" /\ auth'.calls = <<>>
            /\ ctl'.inviteError # NoMessage
            /\ ~ctl'.isLoading
            /\ store' = store /\ token' = token /\ init' = init
       /\ SubmittedCode # NoCode =>
            /\ SubmitWithoutWallet.ctl.inviteError # NoMessage
            /\ SubmitWithoutWallet.auth = auth
            /\ SubmitWithoutWallet.store = store /\ SubmitWithoutWallet.token = token]_vars

\* confirmAccount is on its way with the code typed in the field, surrounded by spaces there
C27_Witness ==
    /\ auth.pc = "awaitConfirm"
    /\ ctl.inviteCode = <<" ", "X", " ">>
    /\ auth.calls[Len(auth.calls)].code = <<"X">>
    /\ auth.calls[Len(auth.calls)].wallet = ctl.pendingWallet
    /\ auth.calls[Len(auth.calls)].captcha # NoCaptcha

\* the invite form is submitted while it holds no signature
SubmitWithoutSignature ==
    /\ ClickedRegister
    /\ SubmittedCode # NoCode /\ ctl.pendingWallet # ""
    /\ ctl.pendingSignature = NoSignature

\* the signature request of register/confirm is answered
RegisterSignAnswered == Answered("register", "awaitSign")

\* C28: a submission of the invite form made while it holds no signature
\* requests a signature over the login challenge for pendingWallet and calls
\* nothing else before the answer; confirmAccount is then called with the
\* signature obtained, and is not called in that attempt if signing failed.
C28_SignsBeforeConfirm ==
    [][/\ SubmitWithoutSignature =>
            /\ auth'.pc = "awaitSign" /\ auth'.branch = "sign"
            /\ auth'.calls = <<SignRequest(LoginChallenge, ctl.pendingWallet)>>
       /\ (RegisterSignAnswered /\ ~auth.answer.ok) =>
            /\ auth'.pc = "idle"
            /\ ctl'.inviteError # NoMessage
       /\ (RegisterSignAnswered /\ ConfirmIssued) =>
            /\ auth.answer.ok
            /\ auth.calls = <<SignRequest(LoginChallenge, auth.wallet)>>
            /\ ConfirmSent = ConfirmCall(auth.wallet, Signature(LoginChallenge, auth.wallet),
                                         auth.code, auth.captcha)
       /\ (ConfirmIssued /\ auth'.branch = "sign") => RegisterSignAnswered]_vars

\* the account was linked out of band: the form opened without a signature,
\* one was requested on submission, and confirmAccount is on its way with it
C28_Witness ==
    /\ url.requireInvite
    /\ auth.pc = "awaitConfirm" /\ auth.branch = "sign"
    /\ Len(auth.calls) = 2
    /\ auth.calls[1] = SignRequest(LoginChallenge, ctl.pendingWallet)
    /\ auth.calls[2].signature = Signature(LoginChallenge, ctl.pendingWallet)
    /\ ctl.pendingSignature = auth.calls[2].signature

\* confirmAccount answered with a user
ConfirmSucceeded ==
    /\ Answered("register", "awaitConfirm")
    /\ auth.answer.ok /\ auth.answer.user # NullUser

\* an invocation of initialize starts in this step
ReconciliationStarts == \E k \in Slots : init'[k].runs = init[k].runs + 1

\* the reconciliation a handler left to itself gets a progress failure that
\* carries the requiresBotVerification flag
DetachedFlagged(k) ==
    /\ k \in auth.detached
    /\ ProgressAnswered(k)
    /\ ~server.progress.ok /\ server.progress.error.requiresBotVerification

\* C29 (as stated): after a successful confirmAccount the store's user is the
\* returned user, needsInviteCode is false and initialize runs again; when its
\* progress fetch fails with the requiresBotVerification flag,
\* requiresBotVerification is true, the token is kept and no step is set.
C29_ConfirmedAccountIsRouted ==
    [][/\ ConfirmSucceeded =>
            /\ store'.user = auth.answer.user
            /\ ~ctl'.needsInviteCode
            /\ ReconciliationStarts
       /\ \A k \in Slots : DetachedFlagged(k) =>
            /\ store'.requiresBotVerification
            /\ token' = token /\ token' # NoToken
            /\ store'.step = store.step]_vars

\* C29 (amended): after a successful confirmAccount needsInviteCode is false and
\* initialize runs again without being awaited; the returned user is stored
\* and in the same step replaced by initialize's stub for the wallet of the
\* token; when the progress fetch of that run fails with the
\* requiresBotVerification flag and the failure is not classified as
\* account-not-confirmed, requiresBotVerification is true, the token is kept
\* and no step is set.
C29_ConfirmedAccountIsRoutedUnlessUnconfirmed ==
    [][/\ ConfirmSucceeded =>
            /\ store'.user = StubUser(auth.answer.user.wallet)
            /\ token' = auth.answer.token
            /\ ~ctl'.needsInviteCode
            /\ ReconciliationStarts
            /\ auth'.pc = "idle" /\ auth'.detached # {}
       /\ \A k \in Slots :
            (DetachedFlagged(k) /\ ~NotConfirmedError(server.progress.error)) =>
                /\ store'.requiresBotVerification
                /\ token' = token /\ token' # NoToken
                /\ store'.step = store.step
                /\ init'[k].result # "rejected"]_vars

\* the account was confirmed through the invite form and its reconciliation
\* ended on the bot-verification demand
C29_Witness ==
    /\ ctl.pendingWallet # "" /\ ~ctl.needsInviteCode
    /\ IsSignature(ctl.pendingSignature)
    /\ auth.pc = "idle" /\ auth.detached # {}
    /\ \A k \in auth.detached : init[k].pc = "done" /\ init[k].result # "rejected"
    /\ store.requiresBotVerification
    /\ token # NoToken
    /\ store.step = 0

\* an invocation of initialize ends on the account-not-confirmed rejection
NotConfirmedOutcome(k) ==
    /\ ProgressAnswered(k)
    /\ init'[k].result = "rejected"
    /\ init'[k].thrown.requiresInviteCode

\* the handler that awaited initialize resumes on its account-not-confirmed rejection
NotConfirmedCaught ==
    /\ auth.pc = "awaitInitialize" /\ auth'.pc # "awaitInitialize"
    /\ init[auth.slot].result = "rejected"
    /\ init[auth.slot].thrown.requiresInviteCode

\* C30: an account-not-confirmed rejection of an initialize started by a
\* handler of ConnectWallet always has that handler awaiting it, and the
\* handler then opens the invite form with the pending wallet: no such
\* rejection is left unhandled.
C30_NotConfirmedIsIntercepted ==
    [][/\ \A k \in Slots : NotConfirmedOutcome(k) =>
            /\ auth.pc = "awaitInitialize" /\ auth.slot = k
            /\ k \notin auth.detached
       /\ NotConfirmedCaught =>
            /\ ctl'.needsInviteCode
            /\ ctl'.pendingWallet = auth.address]_vars

\* a verifyBot call leaves the page; it is the last call of the attempt
VerifyIssued == auth'.pc = "awaitVerify" /\ auth.pc # "awaitVerify"
VerifySent == auth'.calls[Len(auth'.calls)]

\* verifyBot answered success
VerifySucceeded == Answered("verify", "awaitVerify") /\ auth.answer.ok /\ auth.answer.success

\* the attempt of bot verification ends without success: the signature failed
\* or was declined, the CAPTCHA token is missing, verifyBot answered
\* success = false or threw
VerifyFailed ==
    \/ Answered("verify", "awaitSign") /\ auth'.pc = "idle"
    \/ Answered("verify", "awaitVerify") /\ ~(auth.answer.ok /\ auth.answer.success)

\* C31: verifyBot is called only with the signature over the verification
\* challenge for the connected address and a CAPTCHA token; when it answers
\* success requiresBotVerification is cleared and initialize is run; when the
\* attempt fails requiresBotVerification stays true and the token is unchanged.
C31_VerificationGate ==
    [][/\ VerifyIssued =>
            /\ Answered("verify", "awaitSign") /\ auth.answer.ok
            /\ VerifySent = VerifyCall(auth.address, Signature(VerifyChallenge, auth.address),
                                       auth.captcha)
            /\ auth.captcha # NoCaptcha
            /\ auth.calls = <<SignRequest(VerifyChallenge, auth.address)>>
       /\ VerifySucceeded =>
            /\ ~store'.requiresBotVerification
            /\ ReconciliationStarts
       /\ VerifyFailed =>
            /\ store.requiresBotVerification /\ store'.requiresBotVerification
            /\ token' = token
            /\ init' = init
            /\ auth'.pc = "idle" /\ ~ctl'.isLoading]_vars

\* the signature of a verification attempt was declined: the gate is still up,
\* the token is there and the button is free again
C31_Witness ==
    /\ ctl.error = CancelledMessage
    /\ store.requiresBotVerification
    /\ auth.pc = "idle" /\ ~ctl.isLoading
    /\ token # NoToken

\* the main button is pressed while the wallet provider reports no connection
ClickedNotConnected == ClickMain /\ ~wagmi.isConnected

\* C32: a press of the main button made while the wallet is not connected
\* requests no signature and makes no login, confirmAccount or verifyBot call,
\* changes no store field and not the token, and leaves isLoading false.
C32_ConnectOnlyOpensTheModal ==
    [][ClickedNotConnected =>
          /\ auth'.pc = "idle" /\ auth'.calls = <<>>
          /\ store' = store
          /\ token' = token
          /\ init' = init
          /\ ~ctl'.isLoading]_vars

\* the invite form is submitted with nothing but blanks in its field
SubmitWithEmptyField == ClickedRegister /\ trim(ctl.inviteCode) = NoCode

\* C33: the referral code of the entry URL is never lost: an initialize called
\* without a token sets step 0 and nothing of the component; the URL keeps its
\* code through disconnect handling, Back, failed attempts and not-confirmed
\* reconciliations; every submission of the invite form with an empty field
\* uses that code, and the confirmAccount call it leads to carries it.
C33_ReferralCodeIsKept ==
    [][/\ url' = url /\ url.code = UrlCode
       /\ LoadWithoutToken => (store'.step = 0 /\ ctl' = ctl /\ token' = NoToken)
       /\ SubmitWithEmptyField =>
            /\ ctl'.inviteError # InviteCodeRequired
            /\ auth'.pc # "idle" => auth'.code = UrlCode
       /\ (ConfirmIssued /\ auth'.code = UrlCode) => ConfirmSent.code = UrlCode
       /\ (auth.handler = "register" /\ auth'.handler = "register") => auth'.code = auth.code]_vars

\* after Back emptied the field and a failed attempt, the form is submitted
\* again and confirmAccount is on its way with the code of the URL
C33_Witness ==
    /\ ctl.inviteCode = NoCode
    /\ ctl.inviteError = NoMessage /\ ctl.error = NoMessage
    /\ auth.pc = "awaitConfirm"
    /\ auth.calls[Len(auth.calls)].code = UrlCode
    /\ url.code = UrlCode
    /\ init[1].result = "rejected"
    /\ init[2].runs > 0

\* the persisted token decodes to a wallet
TokenNamesWallet == token # NoToken /\ decodeToken(token).ok /\ decodeToken(token).wallet # ""

\* C34: an initialize run with a token that decodes to a wallet asks for the
\* profile first and for nothing else; getOnboardingProgress is issued when the
\* profile fetch has answered, whether it succeeded or failed; neither the call
\* nor the profile answer writes step: step is written when the progress
\* answer arrives.
C34_ProfileThenProgress ==
    [][\A i \in Slots :
        /\ (Invoked(i) /\ TokenNamesWallet) =>
              /\ init'[i].pc = "awaitProfile"
              /\ init'[i].calls = <<getUserProfile(decodeToken(token).wallet)>>
              /\ store'.step = store.step
        /\ ProfileAnswered(i) =>
              /\ init'[i].pc = "awaitProgress"
              /\ init'[i].calls = Append(init[i].calls, getOnboardingProgress)
              /\ store'.step = store.step
        /\ (init'[i].pc = "awaitProgress" /\ init[i].pc # "awaitProgress" /\ Len(init'[i].calls) = 2) =>
              ProfileAnswered(i)
        /\ (ProgressAnswered(i) /\ init[i].calls[1] # getOnboardingProgress) =>
              /\ Len(init[i].calls) = 2
              /\ init[i].calls[2] = getOnboardingProgress]_vars

\* the profile fetch failed, the progress was fetched all the same and the
\* run ended on a step of the onboarding
C34_Witness ==
    /\ server.profile = "fail"
    /\ init[1].pc = "done" /\ init[1].result = "returned"
    /\ Len(init[1].calls) = 2
    /\ init[1].calls[2] = getOnboardingProgress
    /\ store.user = StubUser(init[1].calls[1].wallet)
    /\ store.step = 2

\* C35: every signature passed to confirmAccount is one the wallet provider
\* returned over the login challenge for the wallet it is sent with; it is
\* never the "pending" placeholder.
C35_ConfirmCarriesARealSignature ==
    [][ConfirmIssued =>
          /\ ConfirmSent.signature # PendingMarker
          /\ ConfirmSent.signature = Signature(LoginChallenge, ConfirmSent.wallet)]_vars

\* an initialize call has completed
SomeRunCompleted == \E i \in Slots : init[i].pc = "done"

\* C36: whenever an initialize call has completed and nothing is in flight,
\* isUserLoading is false.
C36_LoadingEndsWithInitialize ==
    (SomeRunCompleted /\ NothingInFlight) => ~store.isUserLoading

\* what initialize leaves when it treats the token as undecodable: no request,
\* token cleared, step 0, isUserLoading false, requiresBotVerification as it was
EndsAsUndecodable(i) ==
    /\ init'[i].pc = "done" /\ init'[i].calls = <<>>
    /\ token' = NoToken
    /\ store'.step = 0
    /\ ~store'.isUserLoading
    /\ store'.requiresBotVerification = store.requiresBotVerification

\* C37 (as stated): a token that has not three dot-separated parts, or whose
\* payload is not base64 of JSON, makes initialize end without any request,
\* with the token cleared, step 0, isUserLoading false and
\* requiresBotVerification untouched.
C37_MalformedTokenIsDropped ==
    [][\A i \in Slots :
        (Invoked(i) /\ token # NoToken /\ (Len(token) # 3 \/ ~token[2].b64json)) =>
            EndsAsUndecodable(i)]_vars

\* C37 (amended): a token that has no second dot-separated part, or whose
\* second part is not base64 of JSON, makes initialize end without any
\* request, with the token cleared, step 0, isUserLoading false and
\* requiresBotVerification untouched; the number of parts beyond the second
\* plays no role.
C37_UnreadablePayloadIsDropped ==
    [][\A i \in Slots :
        (Invoked(i) /\ token # NoToken /\ (Len(token) < 2 \/ ~token[2].b64json)) =>
            EndsAsUndecodable(i)]_vars

\* a run ended in the outer catch without having asked the server anything
C37_Witness ==
    /\ init[1].pc = "done" /\ init[1].runs = 1
    /\ init[1].calls = <<>>
    /\ token = NoToken
    /\ store.step = 0
    /\ ~store.isUserLoading
    /\ ~store.requiresBotVerification

\* a step of initialize in slot i: the call, the profile answer, the progress answer
InitializeStep(i) == Invoked(i) \/ ProfileAnswered(i) \/ ProgressAnswered(i)

\* C38: no step of initialize lowers requiresBotVerification, and none changes
\* xp: a run that succeeds and derives a step >= 2 leaves a raised gate up.
C38_InitializeNeverLowersTheGate ==
    [][\A i \in Slots : InitializeStep(i) =>
          /\ store.requiresBotVerification => store'.requiresBotVerification
          /\ store'.xp = store.xp]_vars

\* the gate was raised by one run and the next one, which succeeded, derived
\* an onboarding step and left it up; the xp added meanwhile is still there
C38_Witness ==
    /\ store.requiresBotVerification
    /\ init[1].pc = "done" /\ init[1].result = "returned" /\ init[1].runs = 2
    /\ server.progress.ok
    /\ store.onboardingProgress = server.progress.progress
    /\ store.step >= 2
    /\ store.xp = XpAmount
    /\ token # NoToken

----------------------------------------------------------------------------
(* Properties of InviteCodeDisplay *)

\* an answer to cycle k is delivered
CycleAnswered(k) == DataResponse(k) \/ QuotaResponse(k)

\* the referral code, the count and the quota shown are those of address a
CodeOf(a) == a # "" /\ invite.referralCode \in {ProfileCode(a), ReferralsCode(a)}
CountOf(a) == a # "" /\ invite.referralCount = a
QuotaOf(a) == a # "" /\ invite.inviteQuota = a

\* C39: an answer to a fetch started for another address than the connected
\* one does not overwrite the referral code, the count or the invite quota
\* that were fetched for the connected address.
C39_LateAnswerIsDropped ==
    [][\A k \in 1..MaxCycles :
          CycleAnswered(k) /\ invite.cycles[k].address # wagmi.address =>
              /\ CodeOf(wagmi.address) => invite'.referralCode = invite.referralCode
              /\ CountOf(wagmi.address) => invite'.referralCount = invite.referralCount
              /\ QuotaOf(wagmi.address) => invite'.inviteQuota = invite.inviteQuota]_vars

\* cycle k reaches its end in this step
CycleEnds(k) ==
    /\ k \in 1..Len(invite.cycles)
    /\ ~Ended(invite.cycles[k])
    /\ Ended(invite'.cycles[k])

\* C40: a cycle ends with loading false; a failure of getUserProfile or of
\* getUserReferrals sets the error and keeps the referral code; an answer that
\* succeeds sets the code to the profile's, else the referrals', else none, and
\* leaves the error alone; the answer of getUserInviteStatus, failed or not,
\* leaves the error alone and ends with quotaLoading false. A cycle that ran
\* alone ends with the error set exactly when its two first requests failed.
C40_CycleOutcome ==
    [][\A k \in 1..MaxCycles :
          /\ CycleEnds(k) => ~invite'.loading
          /\ DataResponse(k) /\ ~invite.cycles[k].data.ok =>
                /\ invite'.error = FailedToLoad
                /\ invite'.referralCode = invite.referralCode
                /\ CycleEnds(k)
          /\ DataResponse(k) /\ invite.cycles[k].data.ok =>
                /\ invite'.error = invite.error
                /\ invite'.referralCode =
                      IF invite.cycles[k].data.profileCode # NoCode
                      THEN invite.cycles[k].data.profileCode
                      ELSE IF invite.cycles[k].data.referralsCode # NoCode
                           THEN invite.cycles[k].data.referralsCode
                           ELSE NoCode
          /\ QuotaResponse(k) =>
                /\ invite'.error = invite.error
                /\ ~invite'.quotaLoading
                /\ CycleEnds(k)
          /\ CycleEnds(k) /\ Len(invite.cycles) = 1 =>
                (invite'.error # NoMessage <=> invite'.cycles[k].pc = "dataFailed")]_vars

\* the profile had no code and getUserInviteStatus failed: the cycle has ended
\* with the code of the referrals answer, no error and nothing loading
C40_Witness ==
    /\ Len(invite.cycles) = 1
    /\ invite.cycles[1].pc = "quotaFailed"
    /\ invite.referralCode = ReferralsCode(invite.cycles[1].address)
    /\ invite.error = NoMessage
    /\ ~invite.loading /\ ~invite.quotaLoading
    /\ invite.inviteQuota = NoQuota

====
